---- MODULE Spec2Model ----
(***************************************************************************)
(* Model of the forwarding core of deno-simple-proxy (lib/server.ts):      *)
(* the process-wide destination / transformer configuration, the wildcard  *)
(* matching used by the two registries, and the per-request forward        *)
(* pipeline of handleRequest -> forwardToDestinationAPI; of the statement  *)
(* generators of lib/oracle.ts; and of withRetry of lib/config.ts.         *)
(***************************************************************************)
EXTENDS Integers, Sequences, FiniteSets, TLC

(***************************************************************************)
(* Strings.  A JavaScript string is modelled by its name (a TLA+ string)   *)
(* and, where the code looks inside it, by the tuple of its characters.    *)
(***************************************************************************)

\* JavaScript `undefined` / `null` for string-valued slots.
Undefined == "undefined"
Null == "null"

\* The characters of the strings the model uses.
Chars(s) ==
  CASE s = "*/exec" -> <<"*", "/", "e", "x", "e", "c">>
    [] s = "localhost:*" -> <<"l", "o", "c", "a", "l", "h", "o", "s", "t", ":", "*">>
    [] s = "*/EXEC" -> <<"*", "/", "E", "X", "E", "C">>
    [] s = "http://localhost/exec" ->
         <<"h", "t", "t", "p", ":", "/", "/", "l", "o", "c", "a", "l", "h", "o", "s", "t",
           "/", "e", "x", "e", "c">>
    [] s = "http://localhost:3000/exec" ->
         <<"h", "t", "t", "p", ":", "/", "/", "l", "o", "c", "a", "l", "h", "o", "s", "t",
           ":", "3", "0", "0", "0", "/", "e", "x", "e", "c">>
    [] s = "http://x:8083/api" ->
         <<"h", "t", "t", "p", ":", "/", "/", "x", ":", "8", "0", "8", "3", "/", "a", "p", "i">>
    [] s = "/api/oracle/convert" ->
         <<"/", "a", "p", "i", "/", "o", "r", "a", "c", "l", "e", "/",
           "c", "o", "n", "v", "e", "r", "t">>
    [] s = "/api/*" -> <<"/", "a", "p", "i", "/", "*">>
    [] s = "/api/health" -> <<"/", "a", "p", "i", "/", "h", "e", "a", "l", "t", "h">>
    [] s = "/api/oracle/procedure" ->
         <<"/", "a", "p", "i", "/", "o", "r", "a", "c", "l", "e", "/",
           "p", "r", "o", "c", "e", "d", "u", "r", "e">>
    [] s = "/api/oracle/proc" ->
         <<"/", "a", "p", "i", "/", "o", "r", "a", "c", "l", "e", "/", "p", "r", "o", "c">>
    [] s = "/procedure" -> <<"/", "p", "r", "o", "c", "e", "d", "u", "r", "e">>
    [] s = "/procedimiento" ->
         <<"/", "p", "r", "o", "c", "e", "d", "i", "m", "i", "e", "n", "t", "o">>
    [] s = "/health" -> <<"/", "h", "e", "a", "l", "t", "h">>
    [] s = "/info" -> <<"/", "i", "n", "f", "o">>
    [] s = "" -> << >>

UpperLetters ==
  <<"A", "B", "C", "D", "E", "F", "G", "H", "I", "J", "K", "L", "M",
    "N", "O", "P", "Q", "R", "S", "T", "U", "V", "W", "X", "Y", "Z">>

LowerLetters ==
  <<"a", "b", "c", "d", "e", "f", "g", "h", "i", "j", "k", "l", "m",
    "n", "o", "p", "q", "r", "s", "t", "u", "v", "w", "x", "y", "z">>

\* Case folding of one character, as the regex flag 'i' compares.
FoldCase(c) ==
  IF \E i \in 1..26 : UpperLetters[i] = c
  THEN LowerLetters[CHOOSE i \in 1..26 : UpperLetters[i] = c]
  ELSE c

\* s.replace(/c/g, rep): every occurrence of the character c becomes rep.
RECURSIVE ReplaceAll(_, _, _)
ReplaceAll(s, c, rep) ==
  IF s = << >> THEN << >>
  ELSE (IF Head(s) = c THEN rep ELSE <<Head(s)>>) \o ReplaceAll(Tail(s), c, rep)

\* s.replace('c', rep) with a string pattern: only the first occurrence.
RECURSIVE ReplaceFirst(_, _, _)
ReplaceFirst(s, c, rep) ==
  IF s = << >> THEN << >>
  ELSE IF Head(s) = c THEN rep \o Tail(s)
  ELSE <<Head(s)>> \o ReplaceFirst(Tail(s), c, rep)

\* s.includes(sub), case-sensitive.
Includes(s, sub) ==
  \E i \in 0..(Len(s) - Len(sub)) : SubSeq(s, i + 1, i + Len(sub)) = sub

(***************************************************************************)
(* The regular expressions findEndpointTransformer builds.  The source     *)
(* text is produced by the three replace calls in the order of the code;   *)
(* the engine below interprets the syntax that can result from them:       *)
(* escaped characters, plain characters, `.` and the postfix `*`.          *)
(***************************************************************************)

\* pattern.replace(/\*/g, '.*').replace(/\./g, '\\.').replace(/\?/g, '\\?')
RegexSource(pattern) ==
  ReplaceAll(ReplaceAll(ReplaceAll(pattern, "*", <<".", "*">>),
                        ".", <<"\\", ".">>),
             "?", <<"\\", "?">>)

\* The atoms of a regex source: [kind, ch, star].
RECURSIVE RegexAtoms(_)
RegexAtoms(src) ==
  IF src = << >> THEN << >>
  ELSE LET esc == Head(src) = "\\" /\ Len(src) >= 2
           n == IF esc THEN 2 ELSE 1
           ch == IF esc THEN src[2] ELSE src[1]
           kind == IF ~esc /\ ch = "." THEN "any" ELSE "lit"
           star == Len(src) > n /\ src[n + 1] = "*"
           used == IF star THEN n + 1 ELSE n
       IN <<[kind |-> kind, ch |-> ch, star |-> star]>>
          \o RegexAtoms(SubSeq(src, used + 1, Len(src)))

\* One atom against one character, under the flag 'i'.
AtomAccepts(atom, c) ==
  atom.kind = "any" \/ FoldCase(atom.ch) = FoldCase(c)

\* atoms[k..] match a prefix of s[i..].
RECURSIVE MatchFrom(_, _, _, _)
MatchFrom(atoms, k, s, i) ==
  IF k > Len(atoms) THEN TRUE
  ELSE IF atoms[k].star
       THEN MatchFrom(atoms, k + 1, s, i)
            \/ (i <= Len(s) /\ AtomAccepts(atoms[k], s[i]) /\ MatchFrom(atoms, k, s, i + 1))
       ELSE i <= Len(s) /\ AtomAccepts(atoms[k], s[i]) /\ MatchFrom(atoms, k + 1, s, i + 1)

\* new RegExp(src, 'i').test(s): an unanchored search.
RegexTest(src, s) ==
  LET atoms == RegexAtoms(src)
  IN \E i \in 1..(Len(s) + 1) : MatchFrom(atoms, 1, s, i)

\* findEndpointTransformer: the test of one pattern against a url, both
\* given by their characters.
TransformerMatch(pattern, url) ==
  RegexTest(RegexSource(pattern), url)

\* forwardToDestinationAPI: the test of one route pattern against the
\* request path, both given by their characters.
DestinationMatch(pattern, path) ==
  path = pattern \/ Includes(path, ReplaceFirst(pattern, "*", << >>))

\* The test findEndpointTransformer applies to one registered pattern.
PatternTest(pattern, url) ==
  TransformerMatch(Chars(pattern), Chars(url))

\* The test forwardToDestinationAPI applies to one destination route.
RouteTest(pattern, path) ==
  DestinationMatch(Chars(pattern), Chars(path))

(***************************************************************************)
(* Bounded inputs.                                                         *)
(***************************************************************************)

\* Longest pattern and longest candidate string the two matchers are
\* compared on.
MaxPatternLen == 3
MaxCandidateLen == 3

PatternChars == {"a", "A", ".", "*", "?"}

CandidateChars == {"a", ".", "?"}

Patterns == UNION { [1..n -> PatternChars] : n \in 0..MaxPatternLen }

Candidates == UNION { [1..n -> CandidateChars] : n \in 0..MaxCandidateLen }

\* Most calls of the configuration endpoints during one forward attempt.
MaxReconfigurations == 1

\* Longest routes array handed to setDestinationRoutes.
MaxRoutes == 2

\* Most registrations recorded in the registration log.
MaxRegistrations == 3

Urls == {"http://localhost/exec", "http://localhost:3000/exec", "http://x:8083/api"}

TransformerPatterns == {"*/exec", "localhost:*"}

RequestPaths == {"/api/oracle/convert", "/api/health"}

\* Transform functions; each is identified by a name.
Transformers == {"T1", "T2"}
GlobalTransformers == {"G"}

EmptyHeaders == [h \in {} |-> ""]

\* A header object with an Authorization entry.
Auth(v) == [h \in {"Authorization"} |-> v]

\* A header object with an Authorization and an X-Source entry.
AuthSource(v, w) ==
  [h \in {"Authorization", "X-Source"} |-> IF h = "Authorization" THEN v ELSE w]

\* The headers setBearerTokenHandler builds for a token.
BearerHeaders(token) ==
  [h \in {"Authorization", "Content-Type", "X-Source"} |->
     CASE h = "Authorization" -> token
       [] h = "Content-Type" -> "application/json"
       [] OTHER -> "deno-oracle-proxy"]

\* The transform function setBearerTokenHandler registers.
BearerTransformer == "Bearer"

\* `Bearer ${config.token}` for the tokens posted to the endpoint.
BearerTokens == {"Bearer secret"}

\* (method, headers) arguments of setDestinationAPI.
DestinationOptions ==
  { [method |-> "post", headers |-> EmptyHeaders],
    [method |-> "PUT", headers |-> Auth("Bearer global")] }

\* options argument of setEndpointTransformer.
TransformerOptions ==
  { [method |-> Undefined, headers |-> EmptyHeaders],
    [method |-> "put", headers |-> AuthSource("Bearer transformer", "proxy")] }

\* Elements of the routes array of setDestinationRoutes.
RouteInputs ==
  { [pattern |-> "/api/*", url |-> "http://localhost:3000/exec", method |-> "get",
     headers |-> AuthSource("Bearer route", "route")],
    [pattern |-> "/api/oracle/convert", url |-> "http://localhost/exec", method |-> "POST",
     headers |-> Auth("Bearer convert")],
    [pattern |-> "/api/health", url |-> "http://x:8083/api", method |-> "get",
     headers |-> EmptyHeaders] }

\* Request bodies: valid JSON that converts, valid JSON the handler rejects,
\* and text that is not JSON.
RequestBodies == {"valid", "invalid", "malformed"}

Statuses == {200, 500}

\* Messages of the exceptions fetch raises for an unreachable destination.
NetworkErrors == {"error sending request"}

\* What a transform can throw: an Error with a message, an Error without
\* one, or a value that is not an Error.
TransformThrows == {"boom", "", Undefined}

\* The two tests, tabulated once over the strings of the model.
PatternTestTable ==
  [pattern \in TransformerPatterns, url \in Urls |-> PatternTest(pattern, url)]

RouteTestTable ==
  [pattern \in { r.pattern : r \in RouteInputs }, path \in RequestPaths |->
     RouteTest(pattern, path)]

TransformerPatternMatches(pattern, url) == PatternTestTable[pattern, url]

DestinationPatternMatches(pattern, path) == RouteTestTable[pattern, path]

(***************************************************************************)
(* JavaScript helpers.                                                     *)
(***************************************************************************)

\* String.prototype.toUpperCase on the method names.
ToUpperCase(m) ==
  CASE m = "post" -> "POST"
    [] m = "put" -> "PUT"
    [] m = "get" -> "GET"
    [] OTHER -> m

\* JavaScript truthiness of a string-valued slot.
Truthy(v) == v \notin {Undefined, Null, ""}

\* a || b
OrElse(a, b) == IF Truthy(a) THEN a ELSE b

\* { ...a, ...b }
Spread(a, b) ==
  [h \in (DOMAIN a) \cup (DOMAIN b) |-> IF h \in DOMAIN b THEN b[h] ELSE a[h]]

\* A Map whose set() deletes the key and inserts it again at the end.
MapSetMovingToEnd(map, entry) ==
  Append(SelectSeq(map, LAMBDA e : e.pattern # entry.pattern), entry)

\* Map.prototype.set on an insertion-ordered map kept as a sequence of
\* entries: an existing key keeps its position, a new key goes last.
MapSet(map, entry) ==
  IF \E i \in 1..Len(map) : map[i].pattern = entry.pattern
  THEN [i \in 1..Len(map) |-> IF map[i].pattern = entry.pattern THEN entry ELSE map[i]]
  ELSE Append(map, entry)

(***************************************************************************)
(* SQL generation (lib/oracle.ts).  Here a string is the tuple of its      *)
(* characters, and a JSON value is a record [type, chars, n].              *)
(***************************************************************************)

\* Longest array handed to processJsonArray.
MaxItems == 3

Digits == <<"0", "1", "2", "3", "4", "5", "6", "7", "8", "9">>

IsDigit(c) == \E i \in 1..10 : Digits[i] = c

IsLower(c) == \E i \in 1..26 : LowerLetters[i] = c

IsUpper(c) == \E i \in 1..26 : UpperLetters[i] = c

\* [a-zA-Z0-9_]
IsWordChar(c) == IsLower(c) \/ IsUpper(c) \/ IsDigit(c) \/ c = "_"

\* String.prototype.toUpperCase
toUpperCase(s) ==
  [i \in 1..Len(s) |->
     IF IsLower(s[i]) THEN UpperLetters[CHOOSE k \in 1..26 : LowerLetters[k] = s[i]]
     ELSE s[i]]

\* s.replace(/[^a-zA-Z0-9_]/g, '_'), or with /[^a-zA-Z0-9_.]/g when keepDot.
ReplaceIllegal(s, keepDot) ==
  [i \in 1..Len(s) |->
     IF IsWordChar(s[i]) \/ (keepDot /\ s[i] = ".") THEN s[i] ELSE "_"]

\* s.split('.')
RECURSIVE Split(_)
Split(s) ==
  IF \A i \in 1..Len(s) : s[i] # "." THEN <<s>>
  ELSE LET k == CHOOSE i \in 1..Len(s) : s[i] = "." /\ \A j \in 1..(i - 1) : s[j] # "."
       IN <<SubSeq(s, 1, k - 1)>> \o Split(SubSeq(s, k + 1, Len(s)))

\* JSON values.
JsString(chars) == [type |-> "string", chars |-> chars, n |-> 0]

JsNumber(n) == [type |-> "number", chars |-> << >>, n |-> n]

JsUndefined == [type |-> "undefined", chars |-> << >>, n |-> 0]

\* JavaScript truthiness of a JSON value.
IsTruthy(v) ==
  CASE v.type = "string" -> v.chars # << >>
    [] v.type = "number" -> v.n # 0
    [] v.type \in {"undefined", "null"} -> FALSE
    [] OTHER -> TRUE

\* An element of the input array: a mapping with its tableName field and the
\* keys of its other fields, or a value that is not a mapping.
Record(tableName, columns) ==
  [type |-> "object", tableName |-> tableName, columns |-> columns]

NotARecord(type) ==
  [type |-> type, tableName |-> JsUndefined, columns |-> << >>]

\* !item || typeof item !== 'object' || Array.isArray(item)
IsInvalidItem(item) == item.type # "object"

DATA_TABLE == <<"D", "A", "T", "A", "_", "T", "A", "B", "L", "E">>

\* (item.tableName as string) || "DATA_TABLE"
TableNameOf(item) ==
  IF IsTruthy(item.tableName) THEN item.tableName ELSE JsString(DATA_TABLE)

\* processJsonArray: the sanitizedTableName computed for a string tableName.
SanitizedTableName(tableName) ==
  IF Includes(tableName, <<".">>)
  THEN LET parts == Split(tableName)
       IN IF Len(parts) = 2 /\ parts[1] # << >> /\ parts[2] # << >>
          THEN toUpperCase(parts[1]) \o <<".">> \o toUpperCase(parts[2])
          ELSE toUpperCase(ReplaceIllegal(tableName, TRUE))
  ELSE toUpperCase(ReplaceIllegal(tableName, FALSE))

\* A push that replaces the group's array by one holding the new item only.
PushItemOverwrite(tableGroups, key, item) ==
  IF \E g \in 1..Len(tableGroups) : tableGroups[g].key = key
  THEN [g \in 1..Len(tableGroups) |->
          IF tableGroups[g].key = key
          THEN [tableGroups[g] EXCEPT !.items = <<item>>]
          ELSE tableGroups[g]]
  ELSE Append(tableGroups, [key |-> key, items |-> <<item>>])

\* tableGroups[key].push(item) on an object kept as the sequence of its
\* properties in creation order; an item is the index of the element.
PushItem(tableGroups, key, item) ==
  IF \E g \in 1..Len(tableGroups) : tableGroups[g].key = key
  THEN [g \in 1..Len(tableGroups) |->
          IF tableGroups[g].key = key
          THEN [tableGroups[g] EXCEPT !.items = Append(@, item)]
          ELSE tableGroups[g]]
  ELSE Append(tableGroups, [key |-> key, items |-> <<item>>])

\* The grouping loop of processJsonArray from element i on.  It ends with
\* the groups, or with the TypeError of calling toUpperCase on a tableName
\* that is not a string.
RECURSIVE GroupItems(_, _, _)
GroupItems(jsonArray, i, tableGroups) ==
  IF i > Len(jsonArray) THEN [threw |-> FALSE, error |-> "", tableGroups |-> tableGroups]
  ELSE IF IsInvalidItem(jsonArray[i]) THEN GroupItems(jsonArray, i + 1, tableGroups)
  ELSE LET tableName == TableNameOf(jsonArray[i])
       IN IF tableName.type # "string"
          THEN [threw |-> TRUE, error |-> "tableName.toUpperCase is not a function",
                tableGroups |-> tableGroups]
          ELSE GroupItems(jsonArray, i + 1,
                          PushItem(tableGroups, SanitizedTableName(tableName.chars), i))

\* A property key that is an array index: a canonical decimal numeral.
IsArrayIndex(key) ==
  /\ Len(key) \in 1..9
  /\ \A i \in 1..Len(key) : IsDigit(key[i])
  /\ Len(key) > 1 => key[1] # "0"

\* The number an array-index key denotes.
RECURSIVE IndexValue(_)
IndexValue(key) ==
  IF key = << >> THEN 0
  ELSE 10 * IndexValue(SubSeq(key, 1, Len(key) - 1))
       + (CHOOSE d \in 0..9 : Digits[d + 1] = key[Len(key)])

\* Object.entries(tableGroups): the array-index keys in ascending numeric
\* order, then the other keys in creation order.
ObjectEntries(tableGroups) ==
  SortSeq(SelectSeq(tableGroups, LAMBDA g : IsArrayIndex(g.key)),
          LAMBDA g, h : IndexValue(g.key) < IndexValue(h.key))
  \o SelectSeq(tableGroups, LAMBDA g : ~IsArrayIndex(g.key))

\* jsonToOracleInsert(item, tableName): the statement, by its table and the
\* element it inserts.
jsonToOracleInsert(jsonArray, item, tableName) ==
  [into |-> tableName, item |-> item, columns |-> jsonArray[item].columns]

\* generateBatchInsert(items, tableName): the statement, or the error of a
\* first item without columns.
generateBatchInsert(jsonArray, items, tableName) ==
  IF jsonArray[items[1]].columns = << >>
  THEN [threw |-> TRUE, into |-> tableName, items |-> << >>]
  ELSE [threw |-> FALSE, into |-> tableName, items |-> items]

\* One element of the array processJsonArray returns.
TableResult(jsonArray, group) ==
  [tableName |-> group.key,
   recordCount |-> Len(group.items),
   inserts |-> [k \in 1..Len(group.items) |->
                  jsonToOracleInsert(jsonArray, group.items[k], group.key)],
   batchInsert |-> generateBatchInsert(jsonArray, group.items, group.key)]

\* A thrown Error.
Threw(error) == [threw |-> TRUE, error |-> error, tables |-> << >>]

\* processJsonArray(jsonArray): the tables, or the Error it throws.
processJsonArray(jsonArray) ==
  IF jsonArray = << >>
  THEN Threw("El array JSON no puede estar vacio y debe ser un array valido")
  ELSE LET grouped == GroupItems(jsonArray, 1, << >>)
           entries == ObjectEntries(grouped.tableGroups)
           tables == [g \in 1..Len(entries) |-> TableResult(jsonArray, entries[g])]
       IN IF grouped.threw THEN Threw(grouped.error)
          ELSE IF grouped.tableGroups = << >>
          THEN Threw("No se encontraron datos validos para procesar")
          ELSE IF \E g \in 1..Len(tables) : tables[g].batchInsert.threw
          THEN Threw("No hay columnas validas despues de filtrar tableName")
          ELSE [threw |-> FALSE, error |-> "", tables |-> tables]

(***************************************************************************)
(* The generation handlers (lib/endpoints.ts) and withRetry                *)
(* (lib/config.ts).                                                        *)
(***************************************************************************)

\* Elements of the arrays posted to /api/oracle/convert.  Table names:
\* "a", "A", "1", "s.t", "a b.c", "a.b.c", the number 5, and none.
ItemInputs ==
  { Record(JsString(<<"a">>), <<"id">>),
    Record(JsString(<<"A">>), <<"id">>),
    Record(JsString(<<"1">>), <<"id">>),
    Record(JsString(<<"s", ".", "t">>), <<"id">>),
    Record(JsString(<<"a", " ", "b", ".", "c">>), <<"id">>),
    Record(JsString(<<"a", ".", "b", ".", "c">>), <<"id">>),
    Record(JsNumber(5), <<"id">>),
    Record(JsUndefined, <<"id">>),
    Record(JsString(<<"a">>), << >>),
    NotARecord("null"),
    NotARecord("number") }

\* The arrays of at most MaxItems elements.
ItemArrays == UNION { [1..n -> ItemInputs] : n \in 0..MaxItems }

NoItems == << >>

\* A request body: text that is not JSON, an array, or another JSON value.
Malformed ==
  [kind |-> "malformed", items |-> NoItems, item |-> NotARecord("undefined"),
   procedureName |-> JsUndefined, url |-> ""]

ArrayBody(items) ==
  [kind |-> "array", items |-> items, item |-> NotARecord("undefined"),
   procedureName |-> JsUndefined, url |-> ""]

ValueBody(item) ==
  [kind |-> "value", items |-> NoItems, item |-> item,
   procedureName |-> JsUndefined, url |-> ""]

\* The body {procedureName, parameters} posted to the procedure endpoint
\* mounted at url.
ProcedureBody(procedureName, url) ==
  [kind |-> "procedure", items |-> NoItems, item |-> NotARecord("undefined"),
   procedureName |-> procedureName, url |-> url]

NoInput ==
  [kind |-> "none", items |-> NoItems, item |-> NotARecord("undefined"),
   procedureName |-> JsUndefined, url |-> ""]

ConvertBodies ==
  {Malformed} \cup { ArrayBody(items) : items \in ItemArrays }
  \cup { ValueBody(item) : item \in ItemInputs }

\* tables.reduce((sum, table) => sum + table.recordCount, 0)
RECURSIVE TotalRecords(_)
TotalRecords(tables) ==
  IF tables = << >> THEN 0 ELSE Head(tables).recordCount + TotalRecords(Tail(tables))

NoSummary == [totalTables |-> 0, totalRecords |-> 0]

\* No response yet.
NoResult ==
  [status |-> 0, success |-> FALSE, inputType |-> "", tables |-> << >>,
   summary |-> NoSummary, error |-> "", help |-> FALSE, example |-> FALSE]

\* Response.json(result) of convertToOracleHandler.
ArrayResponse(tables) ==
  [status |-> 200, success |-> TRUE, inputType |-> "array", tables |-> tables,
   summary |-> [totalTables |-> Len(tables), totalRecords |-> TotalRecords(tables)],
   error |-> "", help |-> FALSE, example |-> FALSE]

SingleObjectResponse ==
  [status |-> 200, success |-> TRUE, inputType |-> "object", tables |-> << >>,
   summary |-> NoSummary, error |-> "", help |-> FALSE, example |-> FALSE]

ProcedureCallResponse ==
  [status |-> 200, success |-> TRUE, inputType |-> "procedure", tables |-> << >>,
   summary |-> NoSummary, error |-> "", help |-> FALSE, example |-> FALSE]

\* An error body: {success: false, error} with or without help and example.
ErrorResponse(status, error, help, example) ==
  [status |-> status, success |-> FALSE, inputType |-> "", tables |-> << >>,
   summary |-> NoSummary, error |-> error, help |-> help, example |-> example]

\* convertToOracleHandler(req) for a body that parsed.
convertToOracleHandler(body) ==
  CASE body.kind = "array" ->
         LET tables == processJsonArray(body.items)
         IN IF tables.threw THEN ErrorResponse(400, tables.error, TRUE, TRUE)
            ELSE ArrayResponse(tables.tables)
    [] body.kind = "value" /\ body.item.type = "null" ->
         ErrorResponse(400, "Cannot read properties of null", TRUE, TRUE)
    [] body.kind = "value" /\ body.item.type = "object" -> SingleObjectResponse
    [] OTHER -> ErrorResponse(400, "Los datos deben ser un objeto JSON valido", TRUE, TRUE)

\* Names posted to the procedure endpoint: "p", "s.p", "bad name", "a..b",
\* and none.
ProcedureNames ==
  { JsString(<<"p">>),
    JsString(<<"s", ".", "p">>),
    JsString(<<"b", "a", "d", " ", "n", "a", "m", "e">>),
    JsString(<<"a", ".", ".", "b">>),
    JsUndefined }

\* Paths a server mounts procedureHandler at.
ProcedureUrls == {"/api/oracle/procedure", "/api/oracle/proc"}

ProcedureBodies ==
  { ProcedureBody(name, url) : name \in ProcedureNames, url \in ProcedureUrls }

\* part.trim() is the empty string.
IsBlank(s) == \A i \in 1..Len(s) : s[i] = " "

\* [a-zA-Z0-9_$#]
IsProcedureChar(c) == IsWordChar(c) \/ c \in {"$", "#"}

\* generateProcedureCall(procedureName, parameters): the qualified name of
\* the call, or the Error it throws for the name.
generateProcedureCall(procedureName) ==
  IF Includes(procedureName, <<".">>)
  THEN LET parts == Split(procedureName)
       IN IF Len(parts) \in 2..3 /\ \A k \in 1..Len(parts) : ~IsBlank(parts[k])
          THEN [threw |-> FALSE, error |-> "", call |-> toUpperCase(procedureName)]
          ELSE [threw |-> TRUE, error |-> "Formato de procedimiento invalido", call |-> << >>]
  ELSE IF procedureName # << >> /\ \A i \in 1..Len(procedureName) : IsProcedureChar(procedureName[i])
       THEN [threw |-> FALSE, error |-> "", call |-> toUpperCase(procedureName)]
       ELSE [threw |-> TRUE, error |-> "Nombre de procedimiento contiene caracteres invalidos",
             call |-> << >>]

\* processProcedureData(inputData, req) for a single procedure.
processProcedureData(body) ==
  IF ~IsTruthy(body.procedureName) \/ body.procedureName.type # "string"
  THEN [threw |-> TRUE, error |-> "Se requiere un 'procedureName' valido", call |-> << >>]
  ELSE generateProcedureCall(body.procedureName.chars)

\* PERFORMANCE_CONFIG.SLOW.retries, .FAST.retries and DEFAULT_CONFIG.retries
SlowRetries == 3
FastRetries == 1
DefaultRetries == 2

\* getConfigForEndpoint(url).retries
getConfigForEndpoint(url) ==
  IF Includes(Chars(url), Chars("/procedimiento")) \/ Includes(Chars(url), Chars("/procedure"))
  THEN SlowRetries
  ELSE IF Includes(Chars(url), Chars("/health")) \/ Includes(Chars(url), Chars("/info"))
  THEN FastRetries
  ELSE DefaultRetries

\* withRetry: the default baseDelay, in milliseconds.
BaseDelay == 1000

\* Math.pow(2, attempt)
RECURSIVE Pow2(_)
Pow2(n) == IF n = 0 THEN 1 ELSE 2 * Pow2(n - 1)

\* A backoff that grows by baseDelay with each attempt.
LinearDelay(baseDelay, attempt) == baseDelay * (attempt + 1)

\* const delay = baseDelay * Math.pow(2, attempt)
ExponentialDelay(baseDelay, attempt) == baseDelay * Pow2(attempt)

\* Most retries a caller asks for.
MaxRetries == 3

\* baseDelay arguments, in milliseconds: the default and one a caller passes.
BaseDelays == {BaseDelay, 50}

\* What one invocation of fn settles with: its value, or one of two errors.
Outcomes == {"value", "Error 1", "Error 2"}

\* withRetry is not running.
NoRetry == [pc |-> "idle", attempt |-> 0, maxRetries |-> 0, calls |-> 0, waited |-> 0]

(***************************************************************************)
(* Statement rendering (lib/oracle.ts): literals and statements.  An       *)
(* object is the sequence of its properties [key, value] in the order      *)
(* Object.keys lists them; a statement is the sequence of its lines.       *)
(***************************************************************************)

\* Strings of the source text.
TABLENAME == <<"t", "a", "b", "l", "e", "N", "a", "m", "e">>

FECHA == <<"f", "e", "c", "h", "a">>

DATE == <<"d", "a", "t", "e">>

NULL == <<"N", "U", "L", "L">>

TO_DATE_OPEN == <<"T", "O", "_", "D", "A", "T", "E", "(", "'">>

TO_DATE_CLOSE == <<"'", ",", " ", "'", "D", "D", "-", "M", "M", "-", "Y", "Y", "Y", "Y", "'", ")">>

\* Most properties of an object handed to jsonToOracleInsert.
MaxFields == 3

JsNull == [type |-> "null", chars |-> << >>, n |-> 0]

JsBoolean(b) == [type |-> "boolean", chars |-> << >>, n |-> IF b THEN 1 ELSE 0]

\* One property of an object.
Field(key, value) == [key |-> key, value |-> value]

\* JSON.parse of an object whose members are written in the order `members`:
\* the properties in the order the object lists them.
JsonParse(members) == ObjectEntries(members)

\* const filteredData = { ...data }; delete filteredData.tableName
WithoutTableName(data) ==
  SelectSeq(data, LAMBDA f : f.key # TABLENAME)

\* Object.keys(object)
ObjectKeys(object) == [i \in 1..Len(object) |-> object[i].key]

\* Object.values(object)
ObjectValues(object) == [i \in 1..Len(object) |-> object[i].value]

\* Number.prototype.toString of a natural number.
RECURSIVE NumberToString(_)
NumberToString(n) ==
  IF n < 10 THEN <<Digits[n + 1]>>
  ELSE NumberToString(n \div 10) \o <<Digits[(n % 10) + 1]>>

\* String.prototype.toLowerCase
toLowerCase(s) == [i \in 1..Len(s) |-> FoldCase(s[i])]

\* s.split(sep) for a separator of one character.
RECURSIVE SplitOn(_, _)
SplitOn(s, sep) ==
  IF \A i \in 1..Len(s) : s[i] # sep THEN <<s>>
  ELSE LET k == CHOOSE i \in 1..Len(s) : s[i] = sep /\ \A j \in 1..(i - 1) : s[j] # sep
       IN <<SubSeq(s, 1, k - 1)>> \o SplitOn(SubSeq(s, k + 1, Len(s)), sep)

\* /^\d+$/
AllDigits(s) == s # << >> /\ \A i \in 1..Len(s) : IsDigit(s[i])

\* /^\d{1,2}<sep>\d{1,2}<sep>\d{4}$/
IsDayMonthYear(s, sep) ==
  LET p == SplitOn(s, sep)
  IN /\ Len(p) = 3
     /\ \A k \in 1..3 : AllDigits(p[k])
     /\ Len(p[1]) \in 1..2 /\ Len(p[2]) \in 1..2 /\ Len(p[3]) = 4

\* /^\d{4}-\d{1,2}-\d{1,2}$/
IsYearMonthDay(s) ==
  LET p == SplitOn(s, "-")
  IN /\ Len(p) = 3
     /\ \A k \in 1..3 : AllDigits(p[k])
     /\ Len(p[1]) = 4 /\ Len(p[2]) \in 1..2 /\ Len(p[3]) \in 1..2

\* The test of formatOracleValue that sends a string to convertDateToOracle.
\* fieldName is a JSON string or undefined.
IsDateCandidate(value, fieldName) ==
  \/ fieldName.type = "string" /\ Includes(toLowerCase(fieldName.chars), FECHA)
  \/ fieldName.type = "string" /\ Includes(toLowerCase(fieldName.chars), DATE)
  \/ IsDayMonthYear(value, "-")
  \/ IsYearMonthDay(value)
  \/ IsDayMonthYear(value, "/")

\* A Date object: an invalid one, or one with its local calendar fields.
InvalidDate == [valid |-> FALSE, day |-> 0, month |-> 0, year |-> 0]

DateOf(day, month, year) == [valid |-> TRUE, day |-> day, month |-> month, year |-> year]

IsLeapYear(year) == (year % 4 = 0 /\ year % 100 # 0) \/ year % 400 = 0

DaysInMonth(month, year) ==
  IF month = 2 THEN (IF IsLeapYear(year) THEN 29 ELSE 28)
  ELSE IF month \in {4, 6, 9, 11} THEN 30 ELSE 31

\* new Date(year, monthIndex, day): fields out of range carry over.
RECURSIVE MakeDay(_, _, _)
MakeDay(year, monthIndex, day) ==
  IF monthIndex > 11 THEN MakeDay(year + 1, monthIndex - 12, day)
  ELSE IF monthIndex < 0 THEN MakeDay(year - 1, monthIndex + 12, day)
  ELSE IF day > DaysInMonth(monthIndex + 1, year)
       THEN MakeDay(year, monthIndex + 1, day - DaysInMonth(monthIndex + 1, year))
  ELSE IF day < 1
       THEN IF monthIndex = 0
            THEN MakeDay(year - 1, 11, day + 31)
            ELSE MakeDay(year, monthIndex - 1, day + DaysInMonth(monthIndex, year))
  ELSE DateOf(day, monthIndex + 1, year)

\* new Date(year, monthIndex, day) with the year as parseInt returns it: a
\* year from 0 to 99 is taken as 1900 + year.
NewDateOfFields(year, monthIndex, day) ==
  MakeDay(IF year < 100 THEN 1900 + year ELSE year, monthIndex, day)

\* parseInt of a string of digits.
ParseInt(s) == IndexValue(s)

\* The runtime the build runs on, as far as Date is concerned: whether its
\* local time zone is behind UTC, and whether its Date.parse accepts strings
\* that are not in the ISO format or hold an out-of-range field (for which
\* the language leaves the result to the implementation).
Engines == [behindUTC : BOOLEAN, lenient : BOOLEAN]

\* The date a lenient Date.parse makes of a string that is not in the ISO
\* format: V8 reads a lone number n as the month n of 2001.
LegacyDate(s) ==
  LET numbers == SelectSeq(s, IsDigit)
  IN IF Len(numbers) = 1 /\ ParseInt(numbers) \in 1..9
     THEN DateOf(1, ParseInt(numbers), 2001)
     ELSE DateOf(1, 1, 2001)

\* new Date(dateStr), read with the local getters.
NewDate(dateStr, engine) ==
  LET p == SplitOn(dateStr, "-")
      iso == IsYearMonthDay(dateStr) /\ Len(p[2]) = 2 /\ Len(p[3]) = 2
      year == ParseInt(p[1])
      month == ParseInt(p[2])
      day == ParseInt(p[3])
      \* midnight UTC is the evening before in a zone behind UTC
      shift == IF engine.behindUTC THEN 1 ELSE 0
  IN IF iso
     THEN IF month \in 1..12 /\ day \in 1..DaysInMonth(month, year)
          THEN MakeDay(year, month - 1, day - shift)
          ELSE IF engine.lenient /\ month \in 1..12 /\ day \in 1..31
          THEN MakeDay(year, month - 1, day - shift)
          ELSE InvalidDate
     ELSE IF engine.lenient /\ \E i \in 1..Len(dateStr) : IsDigit(dateStr[i])
          THEN LegacyDate(dateStr)
          ELSE InvalidDate

\* value.replace(/'/g, "''")
EscapeQuotes(s) == ReplaceAll(s, "'", <<"'", "'">>)

\* `'${value.replace(/'/g, "''")}'`
QuotedLiteral(s) == <<"'">> \o EscapeQuotes(s) \o <<"'">>

\* n.toString().padStart(2, '0')
PadStart2(s) == IF Len(s) < 2 THEN <<"0">> \o s ELSE s

\* `TO_DATE('${day}-${month}-${year}', 'DD-MM-YYYY')`
ToDateLiteral(date) ==
  TO_DATE_OPEN \o PadStart2(NumberToString(date.day)) \o <<"-">>
  \o PadStart2(NumberToString(date.month)) \o <<"-">> \o NumberToString(date.year)
  \o TO_DATE_CLOSE

\* convertDateToOracle(dateStr)
convertDateToOracle(dateStr, engine) ==
  LET date ==
        IF IsDayMonthYear(dateStr, "-")
        THEN LET p == SplitOn(dateStr, "-")
             IN NewDateOfFields(ParseInt(p[3]), ParseInt(p[2]) - 1, ParseInt(p[1]))
        ELSE IF IsYearMonthDay(dateStr) THEN NewDate(dateStr, engine)
        ELSE IF IsDayMonthYear(dateStr, "/")
        THEN LET p == SplitOn(dateStr, "/")
             IN NewDateOfFields(ParseInt(p[3]), ParseInt(p[2]) - 1, ParseInt(p[1]))
        ELSE NewDate(dateStr, engine)
  IN IF ~date.valid THEN QuotedLiteral(dateStr) ELSE ToDateLiteral(date)

\* formatOracleValue(value, fieldName) for null, strings, natural numbers
\* and booleans.
formatOracleValue(value, fieldName, engine) ==
  IF value.type \in {"null", "undefined"} THEN NULL
  ELSE IF value.type = "string" /\ IsDateCandidate(value.chars, fieldName)
  THEN convertDateToOracle(value.chars, engine)
  ELSE IF value.type = "string" THEN QuotedLiteral(value.chars)
  ELSE IF value.type = "number" THEN NumberToString(value.n)
  ELSE IF value.n = 1 THEN <<"'", "Y", "'">> ELSE <<"'", "N", "'">>

\* One line of a statement: its kind, the table or procedure it names, and
\* the columns (or parameter names) and the literals it lists.
Line(kind, name, columns, values) ==
  [kind |-> kind, name |-> name, columns |-> columns, values |-> values]

Keyword(kind) == Line(kind, << >>, << >>, << >>)

\* What a generator returns: the statement and the number of warnings it
\* logged, or the Error it throws.
Warned(lines, warnings) ==
  [threw |-> FALSE, error |-> "", lines |-> lines, warnings |-> warnings]

Statement(lines) == Warned(lines, 0)

Thrown(error) == [threw |-> TRUE, error |-> error, lines |-> << >>, warnings |-> 0]

\* keys.map((key, index) => formatOracleValue(values[index], key))
FormattedValues(keys, values, engine) ==
  [index \in 1..Len(keys) |->
     formatOracleValue(values[index], JsString(keys[index]), engine)]

\* An insert that lists the properties of data without filtering them.
InsertStatementUnfiltered(data, tableName, engine) ==
  LET filteredData == data
      keys == ObjectKeys(filteredData)
      values == ObjectValues(filteredData)
  IN Statement(<<Line("INSERT INTO", tableName, keys, FormattedValues(keys, values, engine))>>)

\* jsonToOracleInsert(data, tableName) for an object:
\* `INSERT INTO ${tableName} (${columns}) VALUES (${formattedValues});`
InsertStatement(data, tableName, engine) ==
  LET filteredData == WithoutTableName(data)
      keys == ObjectKeys(filteredData)
      values == ObjectValues(filteredData)
  IN Statement(<<Line("INSERT INTO", tableName, keys, FormattedValues(keys, values, engine))>>)

\* keys.length !== columns.length || !keys.every(key => columns.includes(key))
IsInconsistent(keys, columns) ==
  \/ Len(keys) # Len(columns)
  \/ \E i \in 1..Len(keys) : \A j \in 1..Len(columns) : columns[j] # keys[i]

\* The INTO clause of one item: the columns of the statement and the values
\* of the item's own keys.
IntoClause(item, tableName, columns, engine) ==
  LET filteredItem == WithoutTableName(item)
      keys == ObjectKeys(filteredItem)
  IN Line("INTO", tableName, columns,
          FormattedValues(keys, ObjectValues(filteredItem), engine))

\* !tableName || tableName.trim().length === 0
IsEmptyName(tableName) == \A i \in 1..Len(tableName) : tableName[i] = " "

\* A batch insert that rejects items whose keys differ from the columns.
BatchInsertStatementStrict(items, tableName, engine) ==
  LET table == IF IsEmptyName(tableName) THEN DATA_TABLE ELSE tableName
      columns == ObjectKeys(WithoutTableName(items[1]))
      inconsistent == { k \in 1..Len(items) :
                          IsInconsistent(ObjectKeys(WithoutTableName(items[k])), columns) }
  IN IF items = << >> THEN Statement(<< >>)
     ELSE IF columns = << >>
     THEN Thrown("No hay columnas validas despues de filtrar tableName")
     ELSE IF inconsistent # {}
     THEN Thrown("Inconsistencia en columnas")
     ELSE Statement(<<Keyword("INSERT ALL")>>
                    \o [k \in 1..Len(items) |-> IntoClause(items[k], table, columns, engine)]
                    \o <<Keyword("SELECT * FROM dual")>>)

\* generateBatchInsert(items, tableName) for an array of objects.
BatchInsertStatement(items, tableName, engine) ==
  LET table == IF IsEmptyName(tableName) THEN DATA_TABLE ELSE tableName
      columns == ObjectKeys(WithoutTableName(items[1]))
      inconsistent == { k \in 1..Len(items) :
                          IsInconsistent(ObjectKeys(WithoutTableName(items[k])), columns) }
  IN IF items = << >> THEN Statement(<< >>)
     ELSE IF columns = << >>
     THEN Thrown("No hay columnas validas despues de filtrar tableName")
     ELSE Warned(<<Keyword("INSERT ALL")>>
                 \o [k \in 1..Len(items) |-> IntoClause(items[k], table, columns, engine)]
                 \o <<Keyword("SELECT * FROM dual")>>,
                 Cardinality(inconsistent))

\* One element of the array of procedures: {procedureName, parameters}.
Procedure(procedureName, parameters) ==
  [procedureName |-> procedureName, parameters |-> parameters]

\* `  NAME(name => value, ...);`, or `  NAME;` without parameters.
CallLine(sanitizedProcName, parameters, engine) ==
  Line("CALL", sanitizedProcName, ObjectKeys(parameters),
       FormattedValues(ObjectKeys(parameters), ObjectValues(parameters), engine))

\* generateProcedureCall(procedureName, parameters): the block of the call.
ProcedureCallStatement(procedureName, parameters, engine) ==
  IF ~IsTruthy(procedureName) \/ procedureName.type # "string"
  THEN Thrown("El nombre del procedimiento es requerido y debe ser un string")
  ELSE LET name == generateProcedureCall(procedureName.chars)
       IN IF name.threw THEN Thrown(name.error)
          ELSE Statement(<<Keyword("BEGIN"), CallLine(name.call, parameters, engine),
                           Keyword("END")>>)

\* The call lines of generateMultipleProcedureCalls, up to the first
\* procedure the loop throws for.
RECURSIVE CallLines(_, _)
CallLines(procedures, engine) ==
  IF procedures = << >> THEN Statement(<< >>)
  ELSE LET proc == Head(procedures)
           rest == CallLines(Tail(procedures), engine)
       IN IF ~IsTruthy(proc.procedureName)
          THEN Thrown("Cada procedimiento debe tener un 'procedureName'")
          ELSE IF proc.procedureName.type # "string"
          THEN Thrown("proc.procedureName.includes is not a function")
          ELSE IF rest.threw THEN rest
          ELSE Statement(<<CallLine(toUpperCase(proc.procedureName.chars),
                                    proc.parameters, engine)>> \o rest.lines)

\* A generator that leaves out the procedures without a name.
MultipleProcedureCallsSkipping(procedures, engine) ==
  LET named == SelectSeq(procedures, LAMBDA proc : proc.procedureName.type = "string"
                                                    /\ IsTruthy(proc.procedureName))
      calls == CallLines(named, engine)
  IN IF procedures = << >>
     THEN Thrown("Se requiere un array con al menos un procedimiento")
     ELSE IF calls.threw THEN calls
     ELSE Statement(<<Keyword("BEGIN")>> \o calls.lines
                    \o <<Keyword("COMMIT"), Keyword("END")>>)

\* generateMultipleProcedureCalls(procedures)
MultipleProcedureCallsStatement(procedures, engine) ==
  LET calls == CallLines(procedures, engine)
  IN IF procedures = << >>
     THEN Thrown("Se requiere un array con al menos un procedimiento")
     ELSE IF calls.threw THEN calls
     ELSE Statement(<<Keyword("BEGIN")>> \o calls.lines
                    \o <<Keyword("COMMIT"), Keyword("END")>>)

\* processProcedureData(inputData, req) for an array: the block in `call`.
ProcedureArrayStatement(inputData, engine) ==
  IF \E k \in 1..Len(inputData) :
       \/ ~IsTruthy(inputData[k].procedureName)
       \/ inputData[k].procedureName.type # "string"
  THEN Thrown("Cada procedimiento debe tener un 'procedureName' valido")
  ELSE MultipleProcedureCallsStatement(inputData, engine)

\* array.join(sep)
RECURSIVE Join(_, _)
Join(strings, sep) ==
  IF strings = << >> THEN << >>
  ELSE IF Len(strings) = 1 THEN strings[1]
  ELSE strings[1] \o sep \o Join(Tail(strings), sep)

\* The text of an insert: `INSERT INTO ${tableName} (${columns}) VALUES (${formattedValues});`
InsertText(line) ==
  <<"I", "N", "S", "E", "R", "T", " ", "I", "N", "T", "O", " ">> \o line.name \o <<" ", "(">> \o Join(line.columns, <<",", " ">>)
  \o <<")", " ", "V", "A", "L", "U", "E", "S", " ", "(">> \o Join(line.values, <<",", " ">>) \o <<")", ";">>

\* Members of the objects posted for conversion.
FieldInputs ==
  { Field(TABLENAME, JsString(<<"u", "s", "u", "a", "r", "i", "o", "s">>)),
    Field(<<"i", "d">>, JsNumber(1)),
    Field(<<"n", "o", "m", "b", "r", "e">>, JsString(<<"J", "u", "a", "n">>)),
    Field(<<"n", "o", "m", "b", "r", "e">>, JsString(<<"O", "'", "B", "r", "i", "e", "n">>)),
    Field(<<"f", "e", "c", "h", "a">>, JsString(<<"2", "0", "2", "5", "-", "0", "8", "-", "2", "5">>)),
    Field(<<"a", "c", "t", "i", "v", "o">>, JsBoolean(TRUE)),
    Field(<<"7">>, JsNull) }

\* The member lists of at most MaxFields members with distinct keys.
MemberLists ==
  { m \in UNION { [1..n -> FieldInputs] : n \in 0..MaxFields } :
      \A i, j \in 1..Len(m) : m[i].key = m[j].key => i = j }

\* The objects JSON.parse makes of them.
Objects == { JsonParse(m) : m \in MemberLists }

\* The objects handed to generateBatchInsert: {tableName, id},
\* {tableName, id, nombre}, {nombre, id}, {tableName} and {id, fecha}.
BatchObjects ==
  { <<Field(TABLENAME, JsString(<<"t">>)), Field(<<"i", "d">>, JsNumber(1))>>,
    <<Field(TABLENAME, JsString(<<"t">>)), Field(<<"i", "d">>, JsNumber(2)),
      Field(<<"n", "o", "m", "b", "r", "e">>, JsString(<<"J", "u", "a", "n">>))>>,
    <<Field(<<"n", "o", "m", "b", "r", "e">>, JsString(<<"O", "'", "B", "r", "i", "e", "n">>)), Field(<<"i", "d">>, JsNumber(3))>>,
    <<Field(TABLENAME, JsString(<<"t">>))>>,
    <<Field(<<"i", "d">>, JsNumber(4)), Field(<<"f", "e", "c", "h", "a">>, JsString(<<"2", "0", "2", "5", "-", "0", "8", "-", "2", "5">>))>> }

\* The arrays of at most MaxItems of them.
Batches == UNION { [1..n -> BatchObjects] : n \in 0..MaxItems }

\* Most procedures of one array.
MaxCalls == 2

\* procedureName values: "p", "s.p", "a.b.c.d", "a..b", "b d", "s.b d", "",
\* 5 and none.
QualifiedNameInputs ==
  { JsString(<<"p">>), JsString(<<"s", ".", "p">>), JsString(<<"a", ".", "b", ".", "c", ".", "d">>), JsString(<<"a", ".", ".", "b">>),
    JsString(<<"b", " ", "d">>), JsString(<<"s", ".", "b", " ", "d">>), JsString(<< >>), JsNumber(5), JsUndefined }

\* parameters values: {} and {id: 1, nombre: "O'Brien"}.
ParameterInputs ==
  { << >>, <<Field(<<"i", "d">>, JsNumber(1)), Field(<<"n", "o", "m", "b", "r", "e">>, JsString(<<"O", "'", "B", "r", "i", "e", "n">>))>> }

ProcedureInputs ==
  { Procedure(name, parameters) : name \in QualifiedNameInputs, parameters \in ParameterInputs }

\* The arrays of at most MaxCalls of them.
ProcedureArrays == UNION { [1..n -> ProcedureInputs] : n \in 0..MaxCalls }

\* Strings handed to formatOracleValue: "O'Brien", "'5", "it's 3",
\* "25-08-2025", "2025-02-30" and "x".
ValueInputs ==
  { JsString(<<"O", "'", "B", "r", "i", "e", "n">>), JsString(<<"'", "5">>), JsString(<<"i", "t", "'", "s", " ", "3">>),
    JsString(<<"2", "5", "-", "0", "8", "-", "2", "0", "2", "5">>), JsString(<<"2", "0", "2", "5", "-", "0", "2", "-", "3", "0">>), JsString(<<"x">>) }

\* fieldName arguments: "nombre", "fecha", "birthDate" and none.
FieldNameInputs ==
  { JsString(<<"n", "o", "m", "b", "r", "e">>), JsString(FECHA), JsString(<<"b", "i", "r", "t", "h", "D", "a", "t", "e">>), JsUndefined }

\* tableName arguments.
TableNames == { <<"u", "s", "u", "a", "r", "i", "o", "s">>, DATA_TABLE }

\* tableName arguments of generateBatchInsert.
BatchTableNames == { <<"T">>, << >> }

(***************************************************************************)
(* State.                                                                  *)
(***************************************************************************)

VARIABLES
  DESTINATION_API_URL,         \* string | null
  DESTINATION_API_METHOD,
  DESTINATION_API_HEADERS,
  CUSTOM_PAYLOAD_TRANSFORMER,  \* transform name | null
  ENDPOINT_TRANSFORMERS,       \* Map<pattern, EndpointTransformer>
  ENDPOINT_DESTINATIONS,       \* Map<pattern, EndpointDestination>
  pc,                          \* position of the request being handled
  endpoint,                    \* url.pathname of the request
  responseData,                \* what the generation handler answered
  destination,                 \* locals destinationUrl/Method/Headers/Config
  endpointConfig,              \* local endpointConfig
  forwardPayload,              \* which transform built the payload
  outbound,                    \* the arguments of the fetch call
  forwardResult,               \* what forwardToDestinationAPI returned
  finalResponse,               \* the response to the caller
  steps,                       \* history: the steps of this forward attempt
  fetchCount,                  \* history: fetch calls of this forward attempt
  response,                    \* history: what fetch did
  raised,                      \* history: the exception raised in this attempt
  registrations,               \* history: the setEndpointTransformer calls
  resolved,                    \* history: last answer of findEndpointTransformer
  inputData,                   \* the parsed body handed to a generation handler
  generated,                   \* the response of the generation handler
  retry,                       \* withRetry: its loop variable and what it has done
  matched,                     \* the answers of the two matchers for one pattern
  rendered,                    \* a generator of lib/oracle.ts: its arguments and result
  invocation,                  \* withRetry on its own: its loop and what it has done
  snapshots,                   \* history: the configurations of this forward attempt
  reconfigurations             \* history: the number of calls of the setters

config == <<DESTINATION_API_URL, DESTINATION_API_METHOD, DESTINATION_API_HEADERS,
            CUSTOM_PAYLOAD_TRANSFORMER, ENDPOINT_TRANSFORMERS, ENDPOINT_DESTINATIONS>>

request == <<pc, endpoint, responseData, destination, endpointConfig, forwardPayload,
             outbound, forwardResult, finalResponse, steps, fetchCount, response, raised>>

generation == <<inputData, generated, retry>>

library == <<rendered, invocation>>

reconfiguration == <<snapshots, reconfigurations>>

vars == <<config, request, registrations, resolved, generation, matched, library,
          reconfiguration>>


(***************************************************************************)
(* Values of the request locals.                                           *)
(***************************************************************************)

NoDestination == [url |-> Null, method |-> Undefined, headers |-> EmptyHeaders, config |-> Null]

NoEndpointConfig == [transformer |-> Null, method |-> Undefined, headers |-> EmptyHeaders]

NoOutbound == [url |-> Null, method |-> Undefined, headers |-> EmptyHeaders, body |-> Null]

NoResponseData == [success |-> FALSE, status |-> 0]

\* `return null`
NullResult ==
  [isNull |-> TRUE, success |-> FALSE, status |-> 0, data |-> Undefined,
   error |-> Undefined, destinationUrl |-> Undefined]

\* fetch has not been called.
NoFetch == [kind |-> "none", status |-> 0, json |-> FALSE, error |-> Undefined]

\* Nothing has been raised.
NoException == [at |-> Null, error |-> Undefined]

\* No EndpointTransformer.
NoEntry ==
  [pattern |-> Null, transformer |-> Null, method |-> Undefined, headers |-> EmptyHeaders]

NoFinalResponse ==
  [status |-> 0, success |-> FALSE, hasForwarded |-> FALSE,
   forwarded |-> [success |-> FALSE, response |-> NullResult, destinationUrl |-> Null]]

\* No pattern has been tested.
NoMatch ==
  [tested |-> FALSE, pattern |-> << >>, candidate |-> << >>,
   transformer |-> FALSE, destination |-> FALSE]

\* No generator has been called.
NoRendering ==
  [op |-> "none", data |-> << >>, items |-> << >>, tableName |-> << >>,
   value |-> JsUndefined, fieldName |-> JsUndefined, procedures |-> << >>,
   engine |-> [behindUTC |-> FALSE, lenient |-> FALSE], result |-> Thrown("")]

\* withRetry has not been called.
NoInvocation ==
  [pc |-> "idle", attempt |-> 0, maxRetries |-> 0, baseDelay |-> 0,
   calls |-> << >>, delays |-> << >>, settled |-> "pending", with |-> ""]

\* The configuration, as one value.
Configuration ==
  [url |-> DESTINATION_API_URL, method |-> DESTINATION_API_METHOD,
   headers |-> DESTINATION_API_HEADERS, transformer |-> CUSTOM_PAYLOAD_TRANSFORMER,
   transformers |-> ENDPOINT_TRANSFORMERS, destinations |-> ENDPOINT_DESTINATIONS]

(***************************************************************************)
(* Configuration.                                                          *)
(***************************************************************************)

Init ==
  /\ DESTINATION_API_URL = Null
  /\ DESTINATION_API_METHOD = "POST"
  /\ DESTINATION_API_HEADERS = EmptyHeaders
  /\ CUSTOM_PAYLOAD_TRANSFORMER = Null
  /\ ENDPOINT_TRANSFORMERS = << >>
  /\ ENDPOINT_DESTINATIONS = << >>
  /\ pc = "idle"
  /\ endpoint = Null
  /\ responseData = NoResponseData
  /\ destination = NoDestination
  /\ endpointConfig = NoEndpointConfig
  /\ forwardPayload = Null
  /\ outbound = NoOutbound
  /\ forwardResult = NullResult
  /\ finalResponse = NoFinalResponse
  /\ steps = << >>
  /\ fetchCount = 0
  /\ response = NoFetch
  /\ raised = NoException
  /\ registrations = << >>
  /\ resolved = [url |-> Null, found |-> FALSE, entry |-> NoEntry, at |-> 0]
  /\ inputData = NoInput
  /\ generated = NoResult
  /\ retry = NoRetry
  /\ matched = NoMatch
  /\ rendered = NoRendering
  /\ invocation = NoInvocation
  /\ snapshots = {}
  /\ reconfigurations = 0

\* setDestinationAPI(url, method, headers)
SetDestinationAPI(url, method, headers) ==
  /\ pc = "idle"
  /\ DESTINATION_API_URL' = url
  /\ DESTINATION_API_METHOD' = ToUpperCase(method)
  /\ DESTINATION_API_HEADERS' = headers
  /\ UNCHANGED <<CUSTOM_PAYLOAD_TRANSFORMER, ENDPOINT_TRANSFORMERS, ENDPOINT_DESTINATIONS,
                 request, registrations, resolved, generation, matched,
                 library, reconfiguration>>

\* The entry setDestinationRoutes stores for one element of its argument.
RouteEntry(route) ==
  [pattern |-> route.pattern, url |-> route.url,
   method |-> ToUpperCase(route.method), headers |-> route.headers]

\* routes.forEach(route => ENDPOINT_DESTINATIONS.set(route.pattern, ...))
RECURSIVE SetRoutes(_, _)
SetRoutes(map, routes) ==
  IF routes = << >> THEN map
  ELSE SetRoutes(MapSet(map, RouteEntry(Head(routes))), Tail(routes))

\* The arrays of at most MaxRoutes routes.
RouteArrays ==
  UNION { [1..n -> RouteInputs] : n \in 1..MaxRoutes }

\* setDestinationRoutes(routes)
SetDestinationRoutes(routes) ==
  /\ pc = "idle"
  /\ ENDPOINT_DESTINATIONS' = SetRoutes(ENDPOINT_DESTINATIONS, routes)
  /\ UNCHANGED <<DESTINATION_API_URL, DESTINATION_API_METHOD, DESTINATION_API_HEADERS,
                 CUSTOM_PAYLOAD_TRANSFORMER, ENDPOINT_TRANSFORMERS,
                 request, registrations, resolved, generation, matched,
                 library, reconfiguration>>

\* setPayloadTransformer(transformer)
SetPayloadTransformer(transformer) ==
  /\ pc = "idle"
  /\ CUSTOM_PAYLOAD_TRANSFORMER' = transformer
  /\ UNCHANGED <<DESTINATION_API_URL, DESTINATION_API_METHOD, DESTINATION_API_HEADERS,
                 ENDPOINT_TRANSFORMERS, ENDPOINT_DESTINATIONS,
                 request, registrations, resolved, generation, matched,
                 library, reconfiguration>>

\* The entry setEndpointTransformer stores.
TransformerEntry(endpointPattern, transformer, options) ==
  [pattern |-> endpointPattern, transformer |-> transformer,
   method |-> ToUpperCase(options.method), headers |-> options.headers]

\* setEndpointTransformer(endpointPattern, transformer, options)
SetEndpointTransformer(endpointPattern, transformer, options) ==
  /\ pc = "idle"
  /\ ENDPOINT_TRANSFORMERS' =
       MapSet(ENDPOINT_TRANSFORMERS, TransformerEntry(endpointPattern, transformer, options))
  /\ UNCHANGED <<DESTINATION_API_URL, DESTINATION_API_METHOD, DESTINATION_API_HEADERS,
                 CUSTOM_PAYLOAD_TRANSFORMER, ENDPOINT_DESTINATIONS, request, generation,
                 matched,
                 library, reconfiguration>>

(***************************************************************************)
(* Resolution.                                                             *)
(***************************************************************************)

\* The least element of a non-empty set of indices.
First(S) == CHOOSE i \in S : \A j \in S : i <= j

\* A scan that keeps the last entry that matches instead of returning at the
\* first.
findLastEndpointTransformer(url) ==
  LET hits == { i \in 1..Len(ENDPOINT_TRANSFORMERS) :
                  TransformerPatternMatches(ENDPOINT_TRANSFORMERS[i].pattern, url) }
  IN IF hits = {} THEN 0 ELSE CHOOSE i \in hits : \A j \in hits : j <= i

\* findEndpointTransformer(url): the index of the entry the scan returns,
\* 0 for `null`.
findEndpointTransformer(url) ==
  LET hits == { i \in 1..Len(ENDPOINT_TRANSFORMERS) :
                  TransformerPatternMatches(ENDPOINT_TRANSFORMERS[i].pattern, url) }
  IN IF hits = {} THEN 0 ELSE First(hits)

\* A getEndpointConfig that prefers the global transformer to the one of
\* the matching entry.
getEndpointConfigGlobalFirst(url) ==
  LET i == findEndpointTransformer(url)
  IN IF i # 0
     THEN [transformer |-> OrElse(CUSTOM_PAYLOAD_TRANSFORMER,
                                  ENDPOINT_TRANSFORMERS[i].transformer),
           method |-> OrElse(ENDPOINT_TRANSFORMERS[i].method, DESTINATION_API_METHOD),
           headers |-> Spread(DESTINATION_API_HEADERS, ENDPOINT_TRANSFORMERS[i].headers)]
     ELSE [transformer |-> CUSTOM_PAYLOAD_TRANSFORMER,
           method |-> DESTINATION_API_METHOD,
           headers |-> DESTINATION_API_HEADERS]

\* getEndpointConfig(url)
getEndpointConfig(url) ==
  LET i == findEndpointTransformer(url)
  IN IF i # 0
     THEN [transformer |-> ENDPOINT_TRANSFORMERS[i].transformer,
           method |-> OrElse(ENDPOINT_TRANSFORMERS[i].method, DESTINATION_API_METHOD),
           headers |-> Spread(DESTINATION_API_HEADERS, ENDPOINT_TRANSFORMERS[i].headers)]
     ELSE [transformer |-> CUSTOM_PAYLOAD_TRANSFORMER,
           method |-> DESTINATION_API_METHOD,
           headers |-> DESTINATION_API_HEADERS]

\* A lookup that lets a later matching route overwrite an earlier one (a
\* scan without the `break`).
ResolvedDestinationNoBreak(path) ==
  LET hits == { i \in 1..Len(ENDPOINT_DESTINATIONS) :
                  DestinationPatternMatches(ENDPOINT_DESTINATIONS[i].pattern, path) }
      last == CHOOSE i \in hits : \A j \in hits : j <= i
  IN IF Truthy(path) /\ hits # {}
     THEN [url |-> ENDPOINT_DESTINATIONS[last].url,
           method |-> ENDPOINT_DESTINATIONS[last].method,
           headers |-> ENDPOINT_DESTINATIONS[last].headers,
           config |-> ENDPOINT_DESTINATIONS[last].pattern]
     ELSE [url |-> DESTINATION_API_URL,
           method |-> DESTINATION_API_METHOD,
           headers |-> DESTINATION_API_HEADERS,
           config |-> Null]

\* The destination lookup at the head of forwardToDestinationAPI: the
\* global default, overridden by the first route the scan accepts.
ResolvedDestination(path) ==
  LET hits == { i \in 1..Len(ENDPOINT_DESTINATIONS) :
                  DestinationPatternMatches(ENDPOINT_DESTINATIONS[i].pattern, path) }
  IN IF Truthy(path) /\ hits # {}
     THEN [url |-> ENDPOINT_DESTINATIONS[First(hits)].url,
           method |-> ENDPOINT_DESTINATIONS[First(hits)].method,
           headers |-> ENDPOINT_DESTINATIONS[First(hits)].headers,
           config |-> ENDPOINT_DESTINATIONS[First(hits)].pattern]
     ELSE [url |-> DESTINATION_API_URL,
           method |-> DESTINATION_API_METHOD,
           headers |-> DESTINATION_API_HEADERS,
           config |-> Null]


(***************************************************************************)
(* handleRequest and forwardToDestinationAPI, one action per stretch of    *)
(* code between two suspension points.                                     *)
(***************************************************************************)

ConvertPath == "/api/oracle/convert"

\* Headers every outbound request starts from.
DefaultRequestHeaders ==
  [h \in {"Content-Type", "User-Agent"} |->
     IF h = "Content-Type" THEN "application/json" ELSE "Deno-Oracle-Proxy/1.0"]

\* The response of a handler that is returned without a `forwarded` field.
PlainResponse(status, success) ==
  [status |-> status, success |-> success, hasForwarded |-> FALSE,
   forwarded |-> [success |-> FALSE, response |-> NullResult, destinationUrl |-> Null]]

\* The catch block of forwardToDestinationAPI.  A thrown value is the
\* message of an Error, or Undefined for a value that is not an Error.
ForwardCatch(error, url) ==
  [isNull |-> FALSE, success |-> FALSE, status |-> 0, data |-> Undefined,
   error |-> IF error # Undefined THEN error ELSE "Error desconocido en reenvio",
   destinationUrl |-> url]

\* A try block that ends before the fetch call.
TryCoversUpToFetch(position) ==
  position \in {"resolve_transformer", "build_payload"}

\* A try block that begins after the payload is built.
TryCoversFromFetch(position) ==
  position \in {"send", "awaiting"}

\* The positions of forwardToDestinationAPI inside its try block.
TryCovers(position) ==
  position \in {"resolve_transformer", "build_payload", "send", "awaiting"}

\* A catch block that calls fetch again after a failed call.
RaiseWithRetry(error, trail) ==
  /\ raised' = [at |-> pc, error |-> error]
  /\ IF pc \in {"send", "awaiting"}
     THEN /\ steps' = trail
          /\ pc' = "send"
          /\ UNCHANGED <<forwardResult, finalResponse>>
     ELSE /\ forwardResult' = ForwardCatch(error, destination.url)
          /\ steps' = Append(trail, "FAILURE")
          /\ pc' = "finalize"
          /\ UNCHANGED finalResponse

\* An exception raised at the current position, `trail` being the steps
\* taken so far: caught by the try block of forwardToDestinationAPI when it
\* covers the position, else by the catch of handleRequest, which answers 500.
Raise(error, trail) ==
  /\ raised' = [at |-> pc, error |-> error]
  /\ IF TryCovers(pc)
     THEN /\ forwardResult' = ForwardCatch(error, destination.url)
          /\ steps' = Append(trail, "FAILURE")
          /\ pc' = "finalize"
          /\ UNCHANGED finalResponse
     ELSE /\ finalResponse' = PlainResponse(500, FALSE)
          /\ steps' = trail
          /\ pc' = "responded"
          /\ UNCHANGED forwardResult

\* A handleRequest that forwards whatever the generation handler answered.
HandleRequestForwardingAlways(path, body) ==
  /\ pc = "idle"
  /\ endpoint' = path
  /\ IF path # ConvertPath
     THEN /\ responseData' = [success |-> TRUE, status |-> 200]
          /\ finalResponse' = PlainResponse(200, TRUE)
          /\ pc' = "responded"
     ELSE CASE body = "malformed" ->
                 /\ responseData' = NoResponseData
                 /\ finalResponse' = PlainResponse(500, FALSE)
                 /\ pc' = "responded"
            [] body = "invalid" ->
                 /\ responseData' = [success |-> FALSE, status |-> 400]
                 /\ finalResponse' = NoFinalResponse
                 /\ pc' = "resolve_destination"
            [] body = "valid" ->
                 /\ responseData' = [success |-> TRUE, status |-> 200]
                 /\ finalResponse' = NoFinalResponse
                 /\ pc' = "resolve_destination"
  /\ UNCHANGED <<config, destination, endpointConfig, forwardPayload, outbound,
                 forwardResult, steps, fetchCount, response, raised, registrations, resolved, generation, matched,
                 library, reconfiguration>>

\* handleRequest up to the call of forwardToDestinationAPI.
HandleRequest(path, body) ==
  /\ pc = "idle"
  /\ endpoint' = path
  /\ IF path # ConvertPath
     THEN /\ responseData' = [success |-> TRUE, status |-> 200]
          /\ finalResponse' = PlainResponse(200, TRUE)
          /\ pc' = "responded"
     ELSE CASE body = "malformed" ->
                 /\ responseData' = NoResponseData
                 /\ finalResponse' = PlainResponse(500, FALSE)
                 /\ pc' = "responded"
            [] body = "invalid" ->
                 /\ responseData' = [success |-> FALSE, status |-> 400]
                 /\ finalResponse' = PlainResponse(400, FALSE)
                 /\ pc' = "responded"
            [] body = "valid" ->
                 /\ responseData' = [success |-> TRUE, status |-> 200]
                 /\ finalResponse' = NoFinalResponse
                 /\ pc' = "resolve_destination"
  /\ UNCHANGED <<config, destination, endpointConfig, forwardPayload, outbound,
                 forwardResult, steps, fetchCount, response, raised, registrations, resolved, generation, matched,
                 library, reconfiguration>>

\* forwardToDestinationAPI: destination lookup and the check of the URL.
ResolveDestination ==
  /\ pc = "resolve_destination"
  /\ destination' = ResolvedDestination(endpoint)
  /\ steps' = <<"RESOLVE_DESTINATION">>
  /\ IF Truthy(destination'.url)
     THEN /\ pc' = "resolve_transformer"
          /\ UNCHANGED forwardResult
     ELSE /\ pc' = "finalize"
          /\ forwardResult' = NullResult
  /\ snapshots' = {Configuration}
  /\ UNCHANGED <<config, endpoint, responseData, endpointConfig, forwardPayload, outbound,
                 finalResponse, fetchCount, response, raised, registrations, resolved, generation, matched,
                 library, reconfigurations>>

\* forwardToDestinationAPI: endpointConfig = getEndpointConfig(destinationUrl).
ResolveTransformer ==
  /\ pc = "resolve_transformer"
  /\ endpointConfig' = getEndpointConfig(destination.url)
  /\ steps' = Append(steps, "RESOLVE_TRANSFORMER")
  /\ pc' = "build_payload"
  /\ UNCHANGED <<config, endpoint, responseData, destination, forwardPayload, outbound,
                 forwardResult, finalResponse, fetchCount, response, raised,
                 registrations, resolved, generation, matched,
                 library, reconfiguration>>

\* forwardToDestinationAPI: the payload, from the transform or the default
\* envelope.  `thrown` is "returns" when the transform returns.
BuildPayload(thrown) ==
  /\ pc = "build_payload"
  /\ IF Truthy(endpointConfig.transformer)
     THEN IF thrown = "returns"
          THEN /\ forwardPayload' = endpointConfig.transformer
               /\ steps' = Append(steps, "BUILD_PAYLOAD")
               /\ pc' = "send"
               /\ UNCHANGED <<forwardResult, finalResponse, raised>>
          ELSE /\ forwardPayload' = Null
               /\ Raise(thrown, Append(steps, "BUILD_PAYLOAD"))
     ELSE /\ thrown = "returns"
          /\ forwardPayload' = "default"
          /\ steps' = Append(steps, "BUILD_PAYLOAD")
          /\ pc' = "send"
          /\ UNCHANGED <<forwardResult, finalResponse, raised>>
  /\ UNCHANGED <<config, endpoint, responseData, destination, endpointConfig, outbound,
                 fetchCount, response, registrations, resolved, generation, matched,
                 library, reconfiguration>>

\* The request forwardToDestinationAPI hands to fetch.
OutboundRequest ==
  [url |-> destination.url,
   method |-> destination.method,
   headers |-> Spread(Spread(DefaultRequestHeaders, destination.headers),
                      endpointConfig.headers),
   body |-> forwardPayload]

\* How the promise of fetch can settle: with a response that has a status
\* and a body that is JSON or not, or with a network exception.
SettledOutcomes ==
  [kind : {"response"}, status : Statuses, json : BOOLEAN, error : {Undefined}]
  \cup [kind : {"network"}, status : {0}, json : {FALSE}, error : NetworkErrors]

\* The promise of fetch has not settled: the destination accepted the
\* connection and has not answered.  fetch is called without a signal and
\* outside withTimeout, so nothing but the destination settles it.
Pending == [kind |-> "pending", status |-> 0, json |-> FALSE, error |-> Undefined]

\* What fetch can do by the time the await is first resumed.
FetchOutcomes == SettledOutcomes \cup {Pending}

\* response.ok
Ok(status) == status \in 200..299

\* The result built from a response whose body parsed.
ResponseResult(status, url) ==
  [isNull |-> FALSE, success |-> Ok(status), status |-> status, data |-> "body",
   error |-> Undefined, destinationUrl |-> url]

\* forwardToDestinationAPI after `await fetch(...)` is resumed with a settled
\* promise: response.json() and the result, or the catch block.  `trail` is
\* the steps taken so far.
Resume(outcome, trail) ==
  CASE outcome.kind = "network" ->
         Raise(outcome.error, trail)
    [] outcome.kind = "response" /\ ~outcome.json ->
         Raise("Unexpected token", trail)
    [] outcome.kind = "response" /\ outcome.json ->
         /\ forwardResult' = ResponseResult(outcome.status, destination.url)
         /\ steps' = Append(trail, IF Ok(outcome.status) THEN "SUCCESS" ELSE "FAILURE")
         /\ pc' = "finalize"
         /\ UNCHANGED <<finalResponse, raised>>

\* forwardToDestinationAPI: the fetch call, and the result when the promise
\* settles; while it is pending the request stays suspended in the await.
Send(outcome) ==
  /\ pc = "send"
  /\ outbound' = OutboundRequest
  /\ fetchCount' = fetchCount + 1
  /\ response' = outcome
  /\ IF outcome = Pending
     THEN /\ pc' = "awaiting"
          /\ steps' = Append(steps, "SEND")
          /\ UNCHANGED <<forwardResult, finalResponse, raised>>
     ELSE Resume(outcome, Append(steps, "SEND"))
  /\ UNCHANGED <<config, endpoint, responseData, destination, endpointConfig, forwardPayload,
                 registrations, resolved, generation, matched,
                 library, reconfiguration>>

\* The destination answers, or the connection breaks, while the request is
\* suspended in `await fetch(...)`.
Settle(outcome) ==
  /\ pc = "awaiting"
  /\ response' = outcome
  /\ Resume(outcome, steps)
  /\ UNCHANGED <<config, endpoint, responseData, destination, endpointConfig, forwardPayload,
                 outbound, fetchCount, registrations, resolved, generation, matched,
                 library, reconfiguration>>

\* A `forwarded` field whose success ignores a null result.
ForwardedWithoutNullCheck(result) ==
  [success |-> ~Truthy(result.error),
   response |-> result,
   destinationUrl |-> IF ~result.isNull /\ Truthy(result.destinationUrl)
                      THEN result.destinationUrl
                      ELSE DESTINATION_API_URL]

\* The `forwarded` field handleRequest adds to the generation result.
Forwarded(result) ==
  [success |-> ~result.isNull /\ ~Truthy(result.error),
   response |-> result,
   destinationUrl |-> IF ~result.isNull /\ Truthy(result.destinationUrl)
                      THEN result.destinationUrl
                      ELSE DESTINATION_API_URL]

\* A handleRequest that reports the outcome of the forward as the outcome of
\* the request.
FinalizeWithForwardOutcome ==
  /\ pc = "finalize"
  /\ finalResponse' =
       [status |-> IF forwardResult.isNull \/ forwardResult.success
                   THEN responseData.status ELSE 502,
        success |-> responseData.success /\ (forwardResult.isNull \/ forwardResult.success),
        hasForwarded |-> TRUE, forwarded |-> Forwarded(forwardResult)]
  /\ pc' = "responded"
  /\ UNCHANGED <<config, endpoint, responseData, destination, endpointConfig, forwardPayload,
                 outbound, forwardResult, steps, fetchCount, response, raised,
                 registrations, resolved, generation, matched,
                 library, reconfiguration>>

\* handleRequest after forwardToDestinationAPI returned.
Finalize ==
  /\ pc = "finalize"
  /\ finalResponse' = [status |-> responseData.status, success |-> responseData.success,
                       hasForwarded |-> TRUE, forwarded |-> Forwarded(forwardResult)]
  /\ pc' = "responded"
  /\ UNCHANGED <<config, endpoint, responseData, destination, endpointConfig, forwardPayload,
                 outbound, forwardResult, steps, fetchCount, response, raised,
                 registrations, resolved, generation, matched,
                 library, reconfiguration>>

\* The response has been returned; the locals of the request are gone.
Complete ==
  /\ pc = "responded"
  /\ pc' = "idle"
  /\ endpoint' = Null
  /\ responseData' = NoResponseData
  /\ destination' = NoDestination
  /\ endpointConfig' = NoEndpointConfig
  /\ forwardPayload' = Null
  /\ outbound' = NoOutbound
  /\ forwardResult' = NullResult
  /\ finalResponse' = NoFinalResponse
  /\ steps' = << >>
  /\ fetchCount' = 0
  /\ response' = NoFetch
  /\ raised' = NoException
  /\ snapshots' = {}
  /\ reconfigurations' = 0
  /\ UNCHANGED <<config, registrations, resolved, generation, matched, library>>

\* A call of setEndpointTransformer by the start-up code or by a
\* configuration endpoint.
ConfigureEndpointTransformer(endpointPattern, transformer, options) ==
  /\ SetEndpointTransformer(endpointPattern, transformer, options)
  /\ UNCHANGED <<registrations, resolved, generation, matched, library, reconfiguration>>

Next ==
  \/ \E url \in Urls, o \in DestinationOptions : SetDestinationAPI(url, o.method, o.headers)
  \/ \E routes \in RouteArrays : SetDestinationRoutes(routes)
  \/ \E t \in GlobalTransformers : SetPayloadTransformer(t)
  \/ \E p \in TransformerPatterns, t \in Transformers, o \in TransformerOptions :
       ConfigureEndpointTransformer(p, t, o)
  \/ \E path \in RequestPaths, body \in RequestBodies : HandleRequest(path, body)
  \/ ResolveDestination
  \/ ResolveTransformer
  \/ \E thrown \in {"returns"} \cup TransformThrows : BuildPayload(thrown)
  \/ \E outcome \in FetchOutcomes : Send(outcome)
  \/ \E outcome \in SettledOutcomes : Settle(outcome)
  \/ Finalize
  \/ Complete

Spec == Init /\ [][Next]_vars

\* The steps of a request that the runtime takes on its own: every stretch
\* of handleRequest and forwardToDestinationAPI runs once the await before it
\* is resumed.  The settling of the fetch promise is the destination's step
\* and is not among them.
RequestSteps ==
  \/ ResolveDestination
  \/ ResolveTransformer
  \/ \E thrown \in {"returns"} \cup TransformThrows : BuildPayload(thrown)
  \/ \E outcome \in FetchOutcomes : Send(outcome)
  \/ Finalize
  \/ Complete

\* Spec with the event loop's scheduling: a request that can take a step
\* eventually takes one.
SpecLive == Spec /\ WF_vars(RequestSteps)


(***************************************************************************)
(* Properties of the forward pipeline (specification Spec).                *)
(***************************************************************************)

\* A forward attempt is under way or has just ended for the request.
Forwarding == steps # << >>

\* The routes that accept the path of the request, by position.
MatchingRoutes ==
  { i \in 1..Len(ENDPOINT_DESTINATIONS) :
      DestinationPatternMatches(ENDPOINT_DESTINATIONS[i].pattern, endpoint) }

\* The global default destination.
GlobalDestination ==
  [url |-> DESTINATION_API_URL, method |-> DESTINATION_API_METHOD,
   headers |-> DESTINATION_API_HEADERS]

\* The url, method and headers the forward attempt works with.
UsedDestination ==
  [url |-> destination.url, method |-> destination.method, headers |-> destination.headers]

\* The url, method and headers of the route at position i.
RouteDestination(i) ==
  [url |-> ENDPOINT_DESTINATIONS[i].url, method |-> ENDPOINT_DESTINATIONS[i].method,
   headers |-> ENDPOINT_DESTINATIONS[i].headers]

\* How specific a pattern is: the number of its characters that are not
\* wildcards.
Specificity(pattern) ==
  Cardinality({ k \in 1..Len(Chars(pattern)) : Chars(pattern)[k] # "*" })

\* C2 as stated: when routes match the request path, the destination used
\* is that of the most specific matching route; when none matches, it is
\* the global default.
C2_MostSpecificRoute ==
  Forwarding =>
    IF MatchingRoutes # {}
    THEN \E i \in MatchingRoutes :
           /\ \A j \in MatchingRoutes \ {i} :
                Specificity(ENDPOINT_DESTINATIONS[i].pattern)
                  > Specificity(ENDPOINT_DESTINATIONS[j].pattern)
           /\ UsedDestination = RouteDestination(i)
    ELSE UsedDestination = GlobalDestination

\* C2, amended: when routes match the request path, the destination used is
\* that of the first matching route in the order of the router; when none
\* matches, it is the global default.
C2_FirstMatchingRoute ==
  Forwarding =>
    IF MatchingRoutes # {}
    THEN \E i \in MatchingRoutes :
           /\ \A j \in MatchingRoutes : i <= j
           /\ UsedDestination = RouteDestination(i)
           /\ destination.config = ENDPOINT_DESTINATIONS[i].pattern
    ELSE UsedDestination = GlobalDestination /\ destination.config = Null

\* Two routes match the path, the less specific one comes first, and the
\* forward attempt uses it.
C2_Witness ==
  /\ Forwarding
  /\ \E i, j \in MatchingRoutes :
       /\ i < j
       /\ \A k \in MatchingRoutes : i <= k
       /\ Specificity(ENDPOINT_DESTINATIONS[i].pattern)
            < Specificity(ENDPOINT_DESTINATIONS[j].pattern)
       /\ UsedDestination = RouteDestination(i)
       /\ RouteDestination(i) # RouteDestination(j)


\* The registered transformer entries that accept the destination url of
\* the forward attempt, by position.
MatchingTransformers ==
  { i \in 1..Len(ENDPOINT_TRANSFORMERS) :
      TransformerPatternMatches(ENDPOINT_TRANSFORMERS[i].pattern, destination.url) }

\* C3: the payload is built by the transform of the (first) registry entry
\* that matches the destination url; by the global transformer only when no
\* entry matches; by the default envelope only when, in addition, no global
\* transformer is configured.  The body sent is that payload.
C3_FallbackChain ==
  forwardPayload # Null =>
    /\ IF MatchingTransformers # {}
       THEN \E i \in MatchingTransformers :
              /\ \A j \in MatchingTransformers : i <= j
              /\ forwardPayload = ENDPOINT_TRANSFORMERS[i].transformer
       ELSE IF CUSTOM_PAYLOAD_TRANSFORMER # Null
            THEN forwardPayload = CUSTOM_PAYLOAD_TRANSFORMER
            ELSE forwardPayload = "default"
    /\ fetchCount > 0 => outbound.body = forwardPayload

\* A registry entry matches while a global transformer is configured, and
\* the request has been sent with the payload of the entry's transform.
C3_Witness ==
  /\ fetchCount = 1
  /\ CUSTOM_PAYLOAD_TRANSFORMER # Null
  /\ MatchingTransformers # {}
  /\ outbound.body \in Transformers

\* No route accepts the path of the request and no global default
\* destination is configured.
NoDestinationConfigured ==
  /\ endpoint = ConvertPath
  /\ responseData.success
  /\ MatchingRoutes = {}
  /\ ~Truthy(DESTINATION_API_URL)

\* C4: with no matching route and no global default destination the forward
\* is skipped: no transform runs, nothing is sent, nothing is raised, and
\* the caller gets the generation result with forwarded.success = false and
\* a null forward response.
C4_ForwardingSkipped ==
  NoDestinationConfigured =>
    /\ pc \in {"resolve_destination", "finalize", "responded"}
    /\ forwardPayload = Null
    /\ "BUILD_PAYLOAD" \notin { steps[k] : k \in 1..Len(steps) }
    /\ fetchCount = 0
    /\ outbound = NoOutbound
    /\ raised = NoException
    /\ pc = "responded" =>
         /\ finalResponse.success
         /\ finalResponse.status = 200
         /\ finalResponse.hasForwarded
         /\ ~finalResponse.forwarded.success
         /\ finalResponse.forwarded.response = NullResult

\* A request was answered while routes exist, none accepts its path and no
\* global default destination is configured.
C4_Witness ==
  /\ NoDestinationConfigured
  /\ pc = "responded"
  /\ ENDPOINT_DESTINATIONS # << >>
  /\ finalResponse.hasForwarded

\* s is an initial part of t.
IsPrefix(s, t) == Len(s) <= Len(t) /\ SubSeq(t, 1, Len(s)) = s

ForwardSteps == <<"RESOLVE_DESTINATION", "RESOLVE_TRANSFORMER", "BUILD_PAYLOAD", "SEND">>

Terminals == {"SUCCESS", "FAILURE"}

\* The number of fetch calls the steps account for.
SendCount == Cardinality({ k \in 1..Len(steps) : steps[k] = "SEND" })

\* C5: the steps of a forward attempt are taken in the order
\* RESOLVE_DESTINATION, RESOLVE_TRANSFORMER, BUILD_PAYLOAD, SEND, each at
\* most once; an attempt that has ended has exactly one terminal outcome,
\* SUCCESS or FAILURE, as its last step; fetch is called at most once, and
\* only in SEND.
C5_OnePassOneOutcome ==
  /\ \/ IsPrefix(steps, ForwardSteps)
     \/ /\ Len(steps) >= 1
        /\ steps[Len(steps)] \in Terminals
        /\ IsPrefix(SubSeq(steps, 1, Len(steps) - 1), ForwardSteps)
  /\ fetchCount <= 1
  /\ fetchCount = SendCount
  /\ (Truthy(destination.url) /\ pc \in {"finalize", "responded"}) =>
       /\ steps[Len(steps)] \in Terminals
       /\ steps[Len(steps)] = "SUCCESS" <=> forwardResult.success
  /\ pc \in {"resolve_transformer", "build_payload", "send", "awaiting"} =>
       steps[Len(steps)] \notin Terminals

\* A forward attempt has ended in FAILURE after its one fetch call failed.
C5_Witness ==
  /\ pc = "responded"
  /\ steps = Append(ForwardSteps, "FAILURE")
  /\ fetchCount = 1
  /\ response.kind = "network"

\* The destination answered with a status outside 200..299.
NonOkResponse == response.kind = "response" /\ ~Ok(response.status)

\* C6: a destination response with a non-2xx status is a FAILURE: the
\* forward result has success = false with the status and the body
\* captured, and forwarded.success in the response to the caller is false.
C6_NonOkIsFailure ==
  (pc = "responded" /\ NonOkResponse) =>
    /\ ~forwardResult.success
    /\ forwardResult.status = response.status
    /\ forwardResult.data # Undefined
    /\ ~finalResponse.forwarded.success

\* C7: a network exception of the outbound call does not leave the forward
\* attempt: the attempt returns success = false, a non-empty error message
\* and the url that was tried, and the request is answered with the
\* generation result as for any other forward.
C7_UnreachableIsCaught ==
  response.kind = "network" =>
    /\ pc \in {"finalize", "responded"}
    /\ ~forwardResult.isNull
    /\ ~forwardResult.success
    /\ forwardResult.error \notin {Undefined, Null, ""}
    /\ forwardResult.destinationUrl = outbound.url
    /\ outbound.url \in Urls
    /\ finalResponse.status # 500
    /\ pc = "responded" =>
         /\ finalResponse.hasForwarded
         /\ finalResponse.status = 200
         /\ finalResponse.forwarded.response = forwardResult

\* The request whose destination was unreachable has been answered.
C7_Witness ==
  /\ response.kind = "network"
  /\ pc = "responded"
  /\ fetchCount = 1

\* C8: when the transform throws in BUILD_PAYLOAD the exception does not
\* reach handleRequest: the forward attempt returns a failure result with
\* an error field, and fetch is not called.
C8_TransformFailureIsCaught ==
  raised.at = "build_payload" =>
    /\ pc \in {"finalize", "responded"}
    /\ ~forwardResult.isNull
    /\ ~forwardResult.success
    /\ forwardResult.error # Undefined
    /\ forwardResult.error = IF raised.error = Undefined
                             THEN "Error desconocido en reenvio"
                             ELSE raised.error
    /\ fetchCount = 0
    /\ outbound = NoOutbound
    /\ response = NoFetch
    /\ finalResponse.status # 500
    /\ pc = "responded" =>
         /\ finalResponse.hasForwarded
         /\ finalResponse.forwarded.response = forwardResult

\* The request whose transform threw has been answered.
C8_Witness ==
  /\ raised.at = "build_payload"
  /\ pc = "responded"
  /\ steps = <<"RESOLVE_DESTINATION", "RESOLVE_TRANSFORMER", "BUILD_PAYLOAD", "FAILURE">>

\* A request has been sent to a destination for which a transformer entry
\* is registered.
SentWithEntry == fetchCount > 0 /\ MatchingTransformers # {}

\* The transformer entry matched for the destination of the attempt.
MatchedEntry == ENDPOINT_TRANSFORMERS[First(MatchingTransformers)]

\* C9: a header set both by the resolved destination and by the matched
\* transformer entry is sent with the entry's value; a header of the
\* resolved destination that the entry does not set is sent unchanged.
C9_HeaderPrecedence ==
  SentWithEntry =>
    \A h \in DOMAIN destination.headers :
      /\ h \in DOMAIN outbound.headers
      /\ outbound.headers[h] = IF h \in DOMAIN MatchedEntry.headers
                               THEN MatchedEntry.headers[h]
                               ELSE destination.headers[h]

\* C10: the request is sent with the method the matched transformer entry
\* declares, and with the method of the resolved destination when the
\* entry declares none.
C10_MethodOverride ==
  SentWithEntry =>
    outbound.method = IF Truthy(MatchedEntry.method)
                      THEN MatchedEntry.method
                      ELSE destination.method

\* C11: every forward attempt that reaches SEND eventually returns a
\* terminal forward result to handleRequest, whether or not the destination
\* ever answers (specification SpecLive).
C11_SendYieldsResult ==
  (pc = "send") ~> (pc = "finalize")

\* The outbound call of the attempt failed: a network exception, or a
\* response with a status outside 200..299.
ForwardFailed == fetchCount > 0 /\ (response.kind = "network" \/ NonOkResponse)

\* C12: when generation succeeded and the forward failed, the response to
\* the caller is still the successful generation result (success = true and
\* the handler's status); the failure is recorded under `forwarded` only.
C12_GenerationIndependent ==
  (pc = "responded" /\ ForwardFailed) =>
    /\ responseData.success
    /\ finalResponse.success
    /\ finalResponse.status = responseData.status
    /\ Ok(finalResponse.status)
    /\ finalResponse.hasForwarded
    /\ finalResponse.forwarded.response = forwardResult
    /\ ~forwardResult.isNull
    /\ ~forwardResult.success

\* A request whose forward got a non-2xx answer, or whose destination was
\* unreachable, has been answered with the generation result.
C12_Witness ==
  /\ pc = "responded"
  /\ ForwardFailed
  /\ finalResponse.success
  /\ forwardResult.status = 500 \/ forwardResult.error \in NetworkErrors

(***************************************************************************)
(* The transformer registry on its own: registrations, recorded in call    *)
(* order, and lookups.                                                     *)
(***************************************************************************)

\* setEndpointTransformer, with the call recorded.
RegisterTransformer(endpointPattern, transformer, options) ==
  /\ Len(registrations) < MaxRegistrations
  /\ SetEndpointTransformer(endpointPattern, transformer, options)
  /\ registrations' = Append(registrations,
                             [pattern |-> endpointPattern, transformer |-> transformer,
                              options |-> options])
  /\ UNCHANGED resolved

\* A call of findEndpointTransformer(url); its answer is recorded with the
\* number of registrations made before it.
Resolve(url) ==
  /\ pc = "idle"
  /\ resolved' = [url |-> url,
                  found |-> findEndpointTransformer(url) # 0,
                  entry |-> IF findEndpointTransformer(url) # 0
                            THEN ENDPOINT_TRANSFORMERS[findEndpointTransformer(url)]
                            ELSE NoEntry,
                  at |-> Len(registrations)]
  /\ UNCHANGED <<config, request, registrations, generation, matched, library, reconfiguration>>

\* setBearerTokenHandler(req) for a body with a token and an endpointPattern.
SetBearerToken(endpointPattern, token) ==
  RegisterTransformer(endpointPattern, BearerTransformer,
                      [method |-> "POST", headers |-> BearerHeaders(token)])

\* listEndpointTransformers()
listEndpointTransformers ==
  [i \in 1..Len(ENDPOINT_TRANSFORMERS) |->
     [pattern |-> ENDPOINT_TRANSFORMERS[i].pattern,
      method |-> ENDPOINT_TRANSFORMERS[i].method,
      hasHeaders |-> DOMAIN ENDPOINT_TRANSFORMERS[i].headers # {},
      hasTransformer |-> Truthy(ENDPOINT_TRANSFORMERS[i].transformer)]]

RegistryNext ==
  \/ \E p \in TransformerPatterns, t \in Transformers, o \in TransformerOptions :
       RegisterTransformer(p, t, o)
  \/ \E p \in TransformerPatterns, token \in BearerTokens : SetBearerToken(p, token)
  \/ \E url \in Urls : Resolve(url)

SpecRegistry == Init /\ [][RegistryNext]_vars

\* The recorded answer is that of a lookup made after the last registration.
Answered == resolved.url # Null /\ resolved.at = Len(registrations)

\* The recorded calls that registered the pattern p.
CallsOf(p) == { i \in 1..Len(registrations) : registrations[i].pattern = p }

\* The registered patterns that match the url.
MatchingRegistered(url) ==
  { p \in { registrations[i].pattern : i \in 1..Len(registrations) } :
      TransformerPatternMatches(p, url) }

\* The greatest element of a non-empty set of indices.
Last(S) == CHOOSE i \in S : \A j \in S : j <= i

\* The entry the registry holds for p: the one of the latest call for p.
CurrentEntry(p) ==
  LET call == registrations[Last(CallsOf(p))]
  IN [pattern |-> call.pattern, transformer |-> call.transformer,
      method |-> ToUpperCase(call.options.method), headers |-> call.options.headers]

\* C1 as stated: the lookup returns the matching entry that was registered
\* earliest, an entry being registered by the call that stored it; it
\* answers "no match" only when no registered pattern matches.
C1_EarliestRegisteredEntry ==
  Answered =>
    LET matching == MatchingRegistered(resolved.url)
    IN /\ resolved.found <=> matching # {}
       /\ resolved.found =>
            \E p \in matching :
              /\ \A q \in matching : Last(CallsOf(p)) <= Last(CallsOf(q))
              /\ resolved.entry = CurrentEntry(p)

\* C1, amended: the lookup returns the current entry of the matching pattern
\* whose first registration is the earliest (registering a pattern again
\* replaces its entry and keeps its place in the order); it answers
\* "no match" only when no registered pattern matches.
C1_FirstMatchWins ==
  Answered =>
    LET matching == MatchingRegistered(resolved.url)
    IN /\ resolved.found <=> matching # {}
       /\ resolved.found =>
            \E p \in matching :
              /\ \A q \in matching : First(CallsOf(p)) <= First(CallsOf(q))
              /\ resolved.entry = CurrentEntry(p)

\* Two matching patterns are registered, the first-registered one was
\* registered again after the other, and the lookup answered.
C1_Witness ==
  /\ Answered
  /\ resolved.found
  /\ Cardinality(MatchingRegistered(resolved.url)) = 2
  /\ \E p, q \in MatchingRegistered(resolved.url) :
       /\ First(CallsOf(p)) < First(CallsOf(q))
       /\ Last(CallsOf(p)) > Last(CallsOf(q))
       /\ resolved.entry.pattern = p

(***************************************************************************)
(* The generation handlers on their own (specification SpecGenerate).      *)
(***************************************************************************)

\* POST /api/oracle/convert up to the response of the generation: req.json()
\* in handleRequest, whose exception is answered 500 by its catch block, and
\* convertToOracleHandler.
ConvertToOracle(body) ==
  /\ retry.pc = "idle"
  /\ inputData' = body
  /\ generated' = IF body.kind = "malformed"
                  THEN ErrorResponse(500, "Unexpected token", TRUE, TRUE)
                  ELSE convertToOracleHandler(body)
  /\ retry' = [NoRetry EXCEPT !.pc = "done"]
  /\ UNCHANGED <<config, request, registrations, resolved, matched, library, reconfiguration>>

\* procedureHandler(req) up to the call of withRetry.
ProcedureHandler(body) ==
  /\ retry.pc = "idle"
  /\ inputData' = body
  /\ generated' = NoResult
  /\ retry' = [pc |-> "call", attempt |-> 0, maxRetries |-> getConfigForEndpoint(body.url),
               calls |-> 0, waited |-> 0]
  /\ UNCHANGED <<config, request, registrations, resolved, matched, library, reconfiguration>>

\* withRetry: one pass of its loop up to the next await, and what
\* procedureHandler answers when withRetry returns or throws.
Attempt ==
  /\ retry.pc = "call"
  /\ LET made == processProcedureData(inputData)
     IN IF ~made.threw
        THEN /\ generated' = ProcedureCallResponse
             /\ retry' = [retry EXCEPT !.pc = "done", !.calls = @ + 1]
        ELSE IF retry.attempt = retry.maxRetries
        THEN /\ generated' = ErrorResponse(400, made.error, FALSE, FALSE)
             /\ retry' = [retry EXCEPT !.pc = "done", !.calls = @ + 1]
        ELSE /\ generated' = generated
             /\ retry' = [retry EXCEPT !.pc = "backoff", !.calls = @ + 1]
  /\ UNCHANGED <<config, request, registrations, resolved, matched, inputData,
                 library, reconfiguration>>

\* withRetry: the delay before the next attempt has passed.
Backoff ==
  /\ retry.pc = "backoff"
  /\ retry' = [retry EXCEPT !.pc = "call", !.attempt = @ + 1,
                            !.waited = @ + BaseDelay * Pow2(retry.attempt)]
  /\ UNCHANGED <<config, request, registrations, resolved, matched, inputData, generated,
                 library, reconfiguration>>

\* The response has been returned; the locals of the handler are gone.
ReturnResponse ==
  /\ retry.pc = "done"
  /\ inputData' = NoInput
  /\ generated' = NoResult
  /\ retry' = NoRetry
  /\ UNCHANGED <<config, request, registrations, resolved, matched, library, reconfiguration>>

GenerateNext ==
  \/ \E body \in (IF retry.pc = "idle" THEN ConvertBodies ELSE {}) : ConvertToOracle(body)
  \/ \E body \in ProcedureBodies : ProcedureHandler(body)
  \/ Attempt
  \/ Backoff
  \/ ReturnResponse

SpecGenerate == Init /\ [][GenerateNext]_vars

(***************************************************************************)
(* Properties of the generation handlers (specification SpecGenerate).     *)
(***************************************************************************)

\* A handler has produced its response.
Responded == retry.pc = "done"

\* C13: generation is attempted exactly once for a request, and a failure
\* of the generation is answered after that one attempt, without a backoff
\* delay.
C13_GenerationAttemptedOnce ==
  (Responded /\ inputData.kind = "procedure") =>
    /\ retry.calls = 1
    /\ retry.waited = 0

\* C14: a request that fails validation is answered with a 4xx status and a
\* body {success: false, error, help, example}.
C14_ValidationErrorIs400 ==
  (Responded /\ ~generated.success) =>
    /\ generated.status \in 400..499
    /\ generated.error # ""
    /\ generated.help
    /\ generated.example

\* processJsonArray returned for the array of the request.
Grouped == Responded /\ inputData.kind = "array" /\ generated.success

\* The elements of the input array that are mappings.
ValidItems == { i \in 1..Len(inputData.items) : ~IsInvalidItem(inputData.items[i]) }

\* The elements of the input array placed in the g-th returned table.
ItemsOf(g) ==
  { generated.tables[g].inserts[k].item : k \in 1..Len(generated.tables[g].inserts) }

\* The tables that hold element i.
TablesOf(i) == { g \in 1..Len(generated.tables) : i \in ItemsOf(g) }

\* The declared table name of element i, "DATA_TABLE" when it has none.
DeclaredName(i) == TableNameOf(inputData.items[i]).chars

\* Two names are equal up to letter case.
SameIgnoringCase(s, t) ==
  /\ Len(s) = Len(t)
  /\ \A k \in 1..Len(s) : FoldCase(s[k]) = FoldCase(t[k])

\* C17: the returned tables partition the mapping-typed elements of the
\* input: each is in exactly one table, the one named by the sanitized form
\* of its declared name ("DATA_TABLE" when absent), so that names differing
\* only in letter case share a table; recordCount is the number of records
\* and of single inserts of the table, and the recordCounts sum to the number
\* of mapping-typed elements, which is summary.totalRecords.
C17_GroupsPartitionRecords ==
  Grouped =>
    /\ \A i \in ValidItems :
         /\ Cardinality(TablesOf(i)) = 1
         /\ \A g \in TablesOf(i) :
              generated.tables[g].tableName = SanitizedTableName(DeclaredName(i))
    /\ \A i, j \in ValidItems :
         SameIgnoringCase(DeclaredName(i), DeclaredName(j)) => TablesOf(i) = TablesOf(j)
    /\ \A g, h \in 1..Len(generated.tables) :
         generated.tables[g].tableName = generated.tables[h].tableName => g = h
    /\ \A g \in 1..Len(generated.tables) :
         /\ generated.tables[g].recordCount = Cardinality(ItemsOf(g))
         /\ generated.tables[g].recordCount = Len(generated.tables[g].inserts)
         /\ generated.tables[g].recordCount = Len(generated.tables[g].batchInsert.items)
    /\ generated.summary.totalRecords = Cardinality(ValidItems)
    /\ generated.summary.totalTables = Len(generated.tables)

\* An array with records declared as "a" and as "A", and a record of another
\* table, has been grouped into two tables.
C17_Witness ==
  /\ Grouped
  /\ Len(generated.tables) = 2
  /\ \E g \in 1..2 : generated.tables[g].recordCount = 2
  /\ \E i, j \in ValidItems :
       /\ DeclaredName(i) = <<"a">>
       /\ DeclaredName(j) = <<"A">>
       /\ TablesOf(i) = TablesOf(j)

\* The least element of the g-th table, by position in the input.
FirstItemOf(g) == CHOOSE i \in ItemsOf(g) : \A j \in ItemsOf(g) : i <= j

\* C18: the returned tables are in the order in which the first record of
\* each appears in the input, and the records of a table are in input order.
C18_FirstSeenOrder ==
  Grouped =>
    /\ \A g, h \in 1..Len(generated.tables) :
         g < h => FirstItemOf(g) < FirstItemOf(h)
    /\ \A g \in 1..Len(generated.tables) :
         \A k, l \in 1..Len(generated.tables[g].inserts) :
           k < l => generated.tables[g].inserts[k].item < generated.tables[g].inserts[l].item

\* A name is a non-empty run of uppercase letters, digits and underscores.
IsIdentifier(s) ==
  /\ s # << >>
  /\ \A k \in 1..Len(s) : IsUpper(s[k]) \/ IsDigit(s[k]) \/ s[k] = "_"

\* C19: every returned table name is an uppercase identifier, or two of
\* them joined by one dot.
C19_SanitizedNames ==
  Grouped =>
    \A g \in 1..Len(generated.tables) :
      LET parts == Split(generated.tables[g].tableName)
      IN /\ Len(parts) \in 1..2
         /\ \A k \in 1..Len(parts) : IsIdentifier(parts[k])

\* C20: processJsonArray fails exactly when the array is empty or holds no
\* mapping-typed element; otherwise the elements that are not mappings are
\* skipped and appear in no table.
C20_FailsOnlyWithoutRecords ==
  (Responded /\ inputData.kind = "array") =>
    /\ ~generated.success <=> ValidItems = {}
    /\ generated.success =>
         \A i \in 1..Len(inputData.items) :
           IsInvalidItem(inputData.items[i]) => TablesOf(i) = {}

(***************************************************************************)
(* The two matchers on their own (specification SpecMatcher).              *)
(***************************************************************************)

\* One pattern tested against one string as findEndpointTransformer tests a
\* registered pattern against a url, and as forwardToDestinationAPI tests a
\* route pattern against a request path.
TestPattern(pattern, candidate) ==
  /\ ~matched.tested
  /\ matched' = [tested |-> TRUE, pattern |-> pattern, candidate |-> candidate,
                 transformer |-> TransformerMatch(pattern, candidate),
                 destination |-> DestinationMatch(pattern, candidate)]
  /\ UNCHANGED <<config, request, registrations, resolved, generation, library, reconfiguration>>

\* The answers have been used.
ForgetTest ==
  /\ matched.tested
  /\ matched' = NoMatch
  /\ UNCHANGED <<config, request, registrations, resolved, generation, library, reconfiguration>>

MatcherNext ==
  \/ \E pattern \in (IF matched.tested THEN {} ELSE Patterns), candidate \in Candidates :
       TestPattern(pattern, candidate)
  \/ ForgetTest

SpecMatcher == Init /\ [][MatcherNext]_vars

\* glob[k..] matches a prefix of s[i..] when `*` stands for any run of
\* characters and every other character for itself, letter case ignored.
RECURSIVE GlobMatchesFrom(_, _, _, _)
GlobMatchesFrom(glob, k, s, i) ==
  IF k > Len(glob) THEN TRUE
  ELSE IF glob[k] = "*"
       THEN GlobMatchesFrom(glob, k + 1, s, i)
            \/ (i <= Len(s) /\ GlobMatchesFrom(glob, k, s, i + 1))
       ELSE /\ i <= Len(s)
            /\ FoldCase(glob[k]) = FoldCase(s[i])
            /\ GlobMatchesFrom(glob, k + 1, s, i + 1)

\* A substring of s matches the glob.
GlobMatches(glob, s) == \E i \in 1..(Len(s) + 1) : GlobMatchesFrom(glob, 1, s, i)

\* C15: the predicate compiled from a pattern is true of a candidate exactly
\* when the candidate contains, letter case ignored, a substring that the
\* pattern matches with `*` as any run of characters and every other
\* character, `.` and `?` included, as itself.
C15_GlobSemantics ==
  matched.tested => (matched.transformer <=> GlobMatches(matched.pattern, matched.candidate))

\* C16: the destination router and the transformer registry decide alike
\* whether a pattern matches a string.
C16_SamePredicate ==
  matched.tested => (matched.destination <=> matched.transformer)

(***************************************************************************)
(* The generators of lib/oracle.ts on their own (specification             *)
(* SpecStatements).                                                        *)
(***************************************************************************)

\* A call of jsonToOracleInsert(data, tableName) on the runtime `engine`.
JsonToOracleInsert(data, tableName, engine) ==
  /\ rendered.op = "none"
  /\ rendered' = [NoRendering EXCEPT !.op = "insert", !.data = data,
                                     !.tableName = tableName, !.engine = engine,
                                     !.result = InsertStatement(data, tableName, engine)]
  /\ UNCHANGED <<config, request, registrations, resolved, generation, matched, invocation,
                 reconfiguration>>

\* A call of generateBatchInsert(items, tableName) on the runtime `engine`.
GenerateBatchInsert(items, tableName, engine) ==
  /\ rendered.op = "none"
  /\ rendered' = [NoRendering EXCEPT !.op = "batch", !.items = items,
                                     !.tableName = tableName, !.engine = engine,
                                     !.result = BatchInsertStatement(items, tableName, engine)]
  /\ UNCHANGED <<config, request, registrations, resolved, generation, matched, invocation,
                 reconfiguration>>

\* A call of generateProcedureCall(procedureName, parameters).
GenerateProcedureCall(proc, engine) ==
  /\ rendered.op = "none"
  /\ rendered' = [NoRendering EXCEPT !.op = "call", !.procedures = <<proc>>,
                                     !.engine = engine,
                                     !.result = ProcedureCallStatement(proc.procedureName,
                                                                       proc.parameters, engine)]
  /\ UNCHANGED <<config, request, registrations, resolved, generation, matched, invocation,
                 reconfiguration>>

\* A call of generateMultipleProcedureCalls(procedures).
GenerateMultipleProcedureCalls(procedures, engine) ==
  /\ rendered.op = "none"
  /\ rendered' = [NoRendering EXCEPT !.op = "calls", !.procedures = procedures,
                                     !.engine = engine,
                                     !.result = MultipleProcedureCallsStatement(procedures, engine)]
  /\ UNCHANGED <<config, request, registrations, resolved, generation, matched, invocation,
                 reconfiguration>>

\* processProcedureData(inputData, req) with an array posted to the
\* procedure endpoint.
ProcessProcedureArray(procedures, engine) ==
  /\ rendered.op = "none"
  /\ rendered' = [NoRendering EXCEPT !.op = "procedures", !.procedures = procedures,
                                     !.engine = engine,
                                     !.result = ProcedureArrayStatement(procedures, engine)]
  /\ UNCHANGED <<config, request, registrations, resolved, generation, matched, invocation,
                 reconfiguration>>

\* A call of formatOracleValue(value, fieldName) on the runtime `engine`.
FormatOracleValue(value, fieldName, engine) ==
  /\ rendered.op = "none"
  /\ rendered' = [NoRendering EXCEPT !.op = "format", !.value = value,
                                     !.fieldName = fieldName, !.engine = engine,
                                     !.result = Statement(<<Line("LITERAL", << >>, << >>,
                                                  <<formatOracleValue(value, fieldName, engine)>>)>>)]
  /\ UNCHANGED <<config, request, registrations, resolved, generation, matched, invocation,
                 reconfiguration>>

\* The result has been used.
ForgetRendering ==
  /\ rendered.op # "none"
  /\ rendered' = NoRendering
  /\ UNCHANGED <<config, request, registrations, resolved, generation, matched, invocation,
                 reconfiguration>>

StatementsNext ==
  \/ \E data \in (IF rendered.op = "none" THEN Objects ELSE {}),
        tableName \in TableNames, engine \in Engines :
       JsonToOracleInsert(data, tableName, engine)
  \/ \E items \in (IF rendered.op = "none" THEN Batches ELSE {}),
        tableName \in BatchTableNames, engine \in Engines :
       GenerateBatchInsert(items, tableName, engine)
  \/ \E value \in (IF rendered.op = "none" THEN ValueInputs ELSE {}),
        fieldName \in FieldNameInputs, engine \in Engines :
       FormatOracleValue(value, fieldName, engine)
  \/ \E proc \in (IF rendered.op = "none" THEN ProcedureInputs ELSE {}), engine \in Engines :
       GenerateProcedureCall(proc, engine)
  \/ \E procedures \in (IF rendered.op = "none" THEN ProcedureArrays ELSE {}),
        engine \in Engines :
       GenerateMultipleProcedureCalls(procedures, engine)
  \/ \E procedures \in (IF rendered.op = "none" THEN ProcedureArrays ELSE {}),
        engine \in Engines :
       ProcessProcedureArray(procedures, engine)
  \/ ForgetRendering

SpecStatements == Init /\ [][StatementsNext]_vars

\* The value of the property `key` of an object.
ValueOf(object, key) ==
  object[CHOOSE i \in 1..Len(object) : object[i].key = key].value

\* The keys of an object other than tableName, in the order of the object.
ColumnKeys(object) ==
  SelectSeq(ObjectKeys(object), LAMBDA key : key # TABLENAME)

\* The object of scenario A: {"tableName":"usuarios","id":1,"nombre":"Juan"}.
ScenarioA ==
  <<Field(TABLENAME, JsString(<<"u", "s", "u", "a", "r", "i", "o", "s">>)), Field(<<"i", "d">>, JsNumber(1)),
    Field(<<"n", "o", "m", "b", "r", "e">>, JsString(<<"J", "u", "a", "n">>))>>

BatchRendered == rendered.op = "batch" /\ rendered.items # << >>

\* The block of a batch: INSERT ALL, one INTO clause per item in the order of
\* the items, each with the columns of the first item and the literals of
\* the values of its own item, and SELECT * FROM dual.
IsBatchBlock(lines, items, engine) ==
  /\ Len(lines) = Len(items) + 2
  /\ lines[1] = Keyword("INSERT ALL")
  /\ lines[Len(lines)] = Keyword("SELECT * FROM dual")
  /\ \A k \in 1..Len(items) :
       /\ lines[k + 1].kind = "INTO"
       /\ lines[k + 1].name = (IF \A i \in 1..Len(rendered.tableName) : rendered.tableName[i] = " "
                              THEN DATA_TABLE ELSE rendered.tableName)
       /\ lines[k + 1].columns = ColumnKeys(items[1])
       /\ Len(lines[k + 1].values) = Len(ColumnKeys(items[k]))
       /\ \A i \in 1..Len(ColumnKeys(items[k])) :
            lines[k + 1].values[i] =
              formatOracleValue(ValueOf(items[k], ColumnKeys(items[k])[i]),
                                JsString(ColumnKeys(items[k])[i]), engine)

\* C22 as stated: a batch of n >= 1 items gives one block with n INTO
\* clauses, and never fails.
C22_BatchNeverFails ==
  BatchRendered =>
    /\ ~rendered.result.threw
    /\ IsBatchBlock(rendered.result.lines, rendered.items, rendered.engine)

\* The items whose keys, tableName apart, are not those of the first item.
InconsistentItems ==
  { k \in 1..Len(rendered.items) :
      \/ Len(ColumnKeys(rendered.items[k])) # Len(ColumnKeys(rendered.items[1]))
      \/ { ColumnKeys(rendered.items[k])[i] : i \in 1..Len(ColumnKeys(rendered.items[k])) }
           # { ColumnKeys(rendered.items[1])[i] : i \in 1..Len(ColumnKeys(rendered.items[1])) } }

\* C22, amended: a batch of n >= 1 items whose first item has a key besides
\* tableName gives one block with n INTO clauses in the order of the items,
\* each with the columns of the first item and the values of its own item;
\* an item whose keys differ from those of the first costs a warning and
\* nothing else.  A batch whose first item has no key besides tableName
\* fails with an Error and gives no block.
C22_BatchEmitsWhenFirstHasColumns ==
  BatchRendered =>
    IF ColumnKeys(rendered.items[1]) = << >>
    THEN rendered.result.threw /\ rendered.result.lines = << >>
    ELSE /\ ~rendered.result.threw
         /\ IsBatchBlock(rendered.result.lines, rendered.items, rendered.engine)
         /\ rendered.result.warnings = Cardinality(InconsistentItems)

\* A batch of three items, the second with more keys than the first and the
\* third with none, has given a block with a warning for each.
C22_Witness ==
  /\ BatchRendered
  /\ Len(rendered.items) = 3
  /\ ~rendered.result.threw
  /\ rendered.result.warnings = 2
  /\ Len(rendered.result.lines[3].values) = 2
  /\ rendered.result.lines[4].values = << >>

\* A procedure block has been asked for.
CallsRendered == rendered.op \in {"call", "calls", "procedures"}

\* A qualified name: one to three parts between dots, none empty, all of
\* letters, digits, _, $ and #.
IsQualifiedName(name) ==
  /\ Len(Split(name)) \in 1..3
  /\ \A k \in 1..Len(Split(name)) :
       /\ Split(name)[k] # << >>
       /\ \A i \in 1..Len(Split(name)[k]) :
            \/ IsUpper(Split(name)[k][i]) \/ IsLower(Split(name)[k][i])
            \/ IsDigit(Split(name)[k][i]) \/ Split(name)[k][i] \in {"_", "$", "#"}

\* C23: every call line of a rendered block names a qualified name, and a
\* name with more than three parts, an empty part or a character that is
\* not legal in an identifier fails the operation, which renders nothing.
C23_QualifiedNames ==
  CallsRendered =>
    /\ \A k \in 1..Len(rendered.result.lines) :
         rendered.result.lines[k].kind = "CALL" => IsQualifiedName(rendered.result.lines[k].name)
    /\ (\E k \in 1..Len(rendered.procedures) :
          /\ rendered.procedures[k].procedureName.type = "string"
          /\ ~IsQualifiedName(rendered.procedures[k].procedureName.chars))
       => rendered.result.threw /\ rendered.result.lines = << >>

\* An array of procedures has been handed to the generator or posted.
MultipleRendered == rendered.op \in {"calls", "procedures"} /\ rendered.procedures # << >>

\* The procedure has no name.
LacksName(proc) == proc.procedureName.type # "string" \/ proc.procedureName.chars = << >>

\* C24: an array of n >= 1 procedures gives one block: BEGIN, n call lines
\* in the order of the array, one COMMIT, END; if a procedure lacks its name
\* the call fails and gives no line.
C24_CallsThenOneCommit ==
  MultipleRendered =>
    IF \E k \in 1..Len(rendered.procedures) : LacksName(rendered.procedures[k])
    THEN rendered.result.threw /\ rendered.result.lines = << >>
    ELSE /\ ~rendered.result.threw
         /\ Len(rendered.result.lines) = Len(rendered.procedures) + 3
         /\ rendered.result.lines[1] = Keyword("BEGIN")
         /\ \A k \in 1..Len(rendered.procedures) :
              /\ rendered.result.lines[k + 1].kind = "CALL"
              /\ rendered.result.lines[k + 1].name =
                   toUpperCase(rendered.procedures[k].procedureName.chars)
              /\ rendered.result.lines[k + 1].columns =
                   [i \in 1..Len(rendered.procedures[k].parameters) |->
                      rendered.procedures[k].parameters[i].key]
              /\ rendered.result.lines[k + 1].values =
                   [i \in 1..Len(rendered.procedures[k].parameters) |->
                      formatOracleValue(rendered.procedures[k].parameters[i].value,
                                        JsString(rendered.procedures[k].parameters[i].key),
                                        rendered.engine)]
         /\ rendered.result.lines[Len(rendered.result.lines) - 1] = Keyword("COMMIT")
         /\ rendered.result.lines[Len(rendered.result.lines)] = Keyword("END")
         /\ Cardinality({ k \in 1..Len(rendered.result.lines) :
                            rendered.result.lines[k] = Keyword("COMMIT") }) = 1

\* Two procedures, the second with parameters, have given a block of two
\* call lines and a COMMIT.
C24_Witness ==
  /\ rendered.op = "procedures"
  /\ Len(rendered.procedures) = 2
  /\ rendered.procedures[1].procedureName # rendered.procedures[2].procedureName
  /\ ~rendered.result.threw
  /\ Len(rendered.result.lines) = 5
  /\ rendered.result.lines[3].values # << >>
  /\ rendered.result.lines[4] = Keyword("COMMIT")

\* The string with each of its single quotes written twice.
RECURSIVE Doubled(_)
Doubled(s) ==
  IF s = << >> THEN << >>
  ELSE (IF Head(s) = "'" THEN <<"'", "'">> ELSE <<Head(s)>>) \o Doubled(Tail(s))

\* The literal formatOracleValue has returned.
Literal == rendered.result.lines[1].values[1]

\* C25: for a string with a single quote, whatever the field name, the
\* literal is the string with its quotes doubled between two single quotes.
C25_QuotesDoubled ==
  (rendered.op = "format" /\ \E i \in 1..Len(rendered.value.chars) : rendered.value.chars[i] = "'")
    => Literal = <<"'">> \o Doubled(rendered.value.chars) \o <<"'">>

(***************************************************************************)
(* withRetry of lib/config.ts on its own (specification SpecRetry): fn is   *)
(* any function whose invocations settle, with a value or with an error.   *)
(***************************************************************************)

\* withRetry(fn, maxRetries, baseDelay) is called: attempt = 0.
WithRetry(maxRetries, baseDelay) ==
  /\ invocation.pc = "idle"
  /\ invocation' = [NoInvocation EXCEPT !.pc = "call", !.maxRetries = maxRetries,
                                        !.baseDelay = baseDelay]
  /\ UNCHANGED <<config, request, registrations, resolved, generation, matched, rendered,
                 reconfiguration>>

\* return await fn(), and the catch block up to the computation of delay.
InvokeFn(outcome) ==
  /\ invocation.pc = "call"
  /\ invocation' =
       IF outcome = "value"
       THEN [invocation EXCEPT !.pc = "done", !.calls = Append(@, outcome),
                               !.settled = "resolved", !.with = outcome]
       ELSE IF invocation.attempt = invocation.maxRetries
       THEN [invocation EXCEPT !.pc = "done", !.calls = Append(@, outcome),
                               !.settled = "rejected", !.with = outcome]
       ELSE [invocation EXCEPT !.pc = "backoff", !.calls = Append(@, outcome)]
  /\ UNCHANGED <<config, request, registrations, resolved, generation, matched, rendered,
                 reconfiguration>>

\* await new Promise(resolve => setTimeout(resolve, delay)); attempt++
AwaitDelay ==
  /\ invocation.pc = "backoff"
  /\ invocation' = [invocation EXCEPT
                      !.pc = "call",
                      !.delays = Append(@, ExponentialDelay(invocation.baseDelay,
                                                            invocation.attempt)),
                      !.attempt = @ + 1]
  /\ UNCHANGED <<config, request, registrations, resolved, generation, matched, rendered,
                 reconfiguration>>

\* The caller has the promise's outcome.
ForgetInvocation ==
  /\ invocation.pc = "done"
  /\ invocation' = NoInvocation
  /\ UNCHANGED <<config, request, registrations, resolved, generation, matched, rendered,
                 reconfiguration>>

\* The steps of a running withRetry: an invocation of fn that settles, and
\* the timer of a backoff that fires.
RetrySteps ==
  \/ \E outcome \in Outcomes : InvokeFn(outcome)
  \/ AwaitDelay

RetryNext ==
  \/ \E maxRetries \in 0..MaxRetries, baseDelay \in BaseDelays : WithRetry(maxRetries, baseDelay)
  \/ \E outcome \in Outcomes : InvokeFn(outcome)
  \/ AwaitDelay
  \/ ForgetInvocation

SpecRetry == Init /\ [][RetryNext]_vars /\ WF_vars(RetrySteps)

\* fn is invoked at most maxRetries + 1 times and not again after a value;
\* the k-th wait is baseDelay * 2^(k - 1) and follows a failure that is not
\* the last; the promise resolves with the first value, or rejects with the
\* error of invocation maxRetries + 1.
RetryIsBounded ==
  LET calls == invocation.calls
      delays == invocation.delays
  IN /\ Len(calls) <= invocation.maxRetries + 1
     /\ \A k \in 1..Len(calls) : calls[k] = "value" => k = Len(calls) /\ invocation.pc = "done"
     /\ \A k \in 1..Len(delays) : delays[k] = invocation.baseDelay * 2^(k - 1)
     /\ Len(delays) = (IF invocation.pc \in {"backoff", "done"} THEN Len(calls) - 1
                       ELSE Len(calls))
     /\ invocation.pc = "done" =>
          /\ invocation.settled # "pending"
          /\ invocation.with = calls[Len(calls)]
          /\ invocation.settled = "resolved" <=> calls[Len(calls)] = "value"
          /\ invocation.settled = "rejected" => Len(calls) = invocation.maxRetries + 1
     /\ invocation.pc # "done" => invocation.settled = "pending"

\* C26: withRetry invokes fn at most maxRetries + 1 times, one after the
\* other, returns the first value without another invocation, waits
\* baseDelay * 2^k after failure k and not after the last one, rejects with
\* the last error when every invocation fails, and settles whenever every
\* invocation of fn settles.
C26_BoundedRetry ==
  /\ []RetryIsBounded
  /\ (invocation.pc # "idle") ~> (invocation.pc = "done")

\* Four invocations have failed, with three waits between them, and the
\* promise has rejected with the error of the fourth.
C26_Witness ==
  /\ invocation.pc = "done"
  /\ invocation.maxRetries = 3
  /\ invocation.settled = "rejected"
  /\ invocation.calls = <<"Error 1", "Error 1", "Error 1", "Error 2">>
  /\ invocation.with = "Error 2"
  /\ invocation.delays = <<50, 100, 200>>

\* The first and the last recorded registration of the pattern p.
FirstCallOf(p) == CHOOSE i \in CallsOf(p) : \A j \in CallsOf(p) : i <= j

LastCallOf(p) == CHOOSE i \in CallsOf(p) : \A j \in CallsOf(p) : j <= i

\* C27: after any sequence of registrations the registry lists one entry for
\* each registered pattern and no other, in the order in which the patterns
\* were first registered, and the entry of a pattern holds the transform,
\* the method and the headers of its last registration.
C27_ReplacedInPlace ==
  LET list == listEndpointTransformers
  IN /\ \A i, j \in 1..Len(list) : list[i].pattern = list[j].pattern => i = j
     /\ { list[i].pattern : i \in 1..Len(list) } =
          { registrations[k].pattern : k \in 1..Len(registrations) }
     /\ \A i, j \in 1..Len(list) :
          i < j => FirstCallOf(list[i].pattern) < FirstCallOf(list[j].pattern)
     /\ \A i \in 1..Len(list) :
          LET last == registrations[LastCallOf(list[i].pattern)]
          IN /\ ENDPOINT_TRANSFORMERS[i].transformer = last.transformer
             /\ ENDPOINT_TRANSFORMERS[i].headers = last.options.headers
             /\ ENDPOINT_TRANSFORMERS[i].method = ToUpperCase(last.options.method)
             /\ list[i].method = ENDPOINT_TRANSFORMERS[i].method

\* The pattern registered first has been registered again, by the bearer
\* token endpoint, after a second pattern: it is still listed first, with
\* the new entry.
C27_Witness ==
  /\ Len(registrations) = 3
  /\ registrations[1].pattern = registrations[3].pattern
  /\ registrations[1].pattern # registrations[2].pattern
  /\ registrations[1].transformer # BearerTransformer
  /\ registrations[3].transformer = BearerTransformer
  /\ Len(ENDPOINT_TRANSFORMERS) = 2
  /\ ENDPOINT_TRANSFORMERS[1].pattern = registrations[1].pattern
  /\ ENDPOINT_TRANSFORMERS[1].transformer = BearerTransformer

(***************************************************************************)
(* Reconfiguration at run time (specification SpecReconfigure): the        *)
(* configuration endpoints are served while a forward attempt is suspended *)
(* in one of the awaits of forwardToDestinationAPI.                        *)
(***************************************************************************)

\* forwardToDestinationAPI is suspended in an await between its reading of
\* the destination and the fetch call.
Suspended == pc \in {"resolve_transformer", "build_payload", "send"}

\* setDestinationAPI(url, method, headers), called by a configuration
\* endpoint while the forward attempt is suspended.
ReconfigureDestinationAPI(url, method, headers) ==
  /\ Suspended
  /\ reconfigurations < MaxReconfigurations
  /\ DESTINATION_API_URL' = url
  /\ DESTINATION_API_METHOD' = ToUpperCase(method)
  /\ DESTINATION_API_HEADERS' = headers
  /\ UNCHANGED <<CUSTOM_PAYLOAD_TRANSFORMER, ENDPOINT_TRANSFORMERS, ENDPOINT_DESTINATIONS>>
  /\ snapshots' = snapshots \cup {Configuration'}
  /\ reconfigurations' = reconfigurations + 1
  /\ UNCHANGED <<request, registrations, resolved, generation, matched, library>>

\* setPayloadTransformer(transformer), called by setTransformerHandler while
\* the forward attempt is suspended.
ReconfigurePayloadTransformer(transformer) ==
  /\ Suspended
  /\ reconfigurations < MaxReconfigurations
  /\ CUSTOM_PAYLOAD_TRANSFORMER' = transformer
  /\ UNCHANGED <<DESTINATION_API_URL, DESTINATION_API_METHOD, DESTINATION_API_HEADERS,
                 ENDPOINT_TRANSFORMERS, ENDPOINT_DESTINATIONS>>
  /\ snapshots' = snapshots \cup {Configuration'}
  /\ reconfigurations' = reconfigurations + 1
  /\ UNCHANGED <<request, registrations, resolved, generation, matched, library>>

\* setEndpointTransformer(endpointPattern, transformer, options), called by
\* setEndpointTransformerHandler or setBearerTokenHandler while the forward
\* attempt is suspended.
ReconfigureEndpointTransformer(endpointPattern, transformer, options) ==
  /\ Suspended
  /\ reconfigurations < MaxReconfigurations
  /\ ENDPOINT_TRANSFORMERS' =
       MapSet(ENDPOINT_TRANSFORMERS, TransformerEntry(endpointPattern, transformer, options))
  /\ UNCHANGED <<DESTINATION_API_URL, DESTINATION_API_METHOD, DESTINATION_API_HEADERS,
                 CUSTOM_PAYLOAD_TRANSFORMER, ENDPOINT_DESTINATIONS>>
  /\ snapshots' = snapshots \cup {Configuration'}
  /\ reconfigurations' = reconfigurations + 1
  /\ UNCHANGED <<request, registrations, resolved, generation, matched, library>>

\* The server with its configuration endpoints: configuration between
\* requests, one request with a body that converts, and the configuration
\* endpoints while its forward attempt is suspended.
ReconfigureNext ==
  \/ \E url \in Urls, o \in DestinationOptions : SetDestinationAPI(url, o.method, o.headers)
  \/ \E t \in GlobalTransformers : SetPayloadTransformer(t)
  \/ \E o \in TransformerOptions : ConfigureEndpointTransformer("*/exec", "T1", o)
  \/ HandleRequest(ConvertPath, "valid")
  \/ ResolveDestination
  \/ ResolveTransformer
  \/ BuildPayload("returns")
  \/ \E outcome \in { r \in SettledOutcomes : r.kind = "response" /\ r.status = 200 /\ r.json } :
       Send(outcome)
  \/ Finalize
  \/ Complete
  \/ \E url \in Urls, o \in DestinationOptions :
       ReconfigureDestinationAPI(url, o.method, o.headers)
  \/ \E t \in GlobalTransformers : ReconfigurePayloadTransformer(t)
  \/ \E o \in TransformerOptions : ReconfigureEndpointTransformer("*/exec", "T2", o)

SpecReconfigure == Init /\ [][ReconfigureNext]_vars

\* The destination a request for the path resolves to in the configuration c.
DestinationIn(c, path) ==
  LET hits == { i \in 1..Len(c.destinations) :
                  DestinationPatternMatches(c.destinations[i].pattern, path) }
      first == CHOOSE i \in hits : \A j \in hits : i <= j
  IN IF hits # {}
     THEN [url |-> c.destinations[first].url, method |-> c.destinations[first].method,
           headers |-> c.destinations[first].headers]
     ELSE [url |-> c.url, method |-> c.method, headers |-> c.headers]

\* The transform and the headers the configuration c has for the url.
TransformerIn(c, url) ==
  LET hits == { i \in 1..Len(c.transformers) :
                  TransformerPatternMatches(c.transformers[i].pattern, url) }
      first == CHOOSE i \in hits : \A j \in hits : i <= j
  IN IF hits # {}
     THEN [transformer |-> c.transformers[first].transformer,
           headers |-> Spread(c.headers, c.transformers[first].headers)]
     ELSE [transformer |-> c.transformer, headers |-> c.headers]

\* The request a forward attempt for the path makes of the configuration c.
RequestIn(c, path) ==
  LET d == DestinationIn(c, path)
      t == TransformerIn(c, d.url)
  IN [url |-> d.url, method |-> d.method,
      headers |-> Spread(Spread(DefaultRequestHeaders, d.headers), t.headers),
      body |-> IF Truthy(t.transformer) THEN t.transformer ELSE "default"]

\* C28: the request handed to fetch is the one a forward attempt makes of
\* one of the configurations that stood between its first reading of the
\* configuration and the fetch call.
C28_OneSnapshot ==
  fetchCount > 0 => \E c \in snapshots : outbound = RequestIn(c, endpoint)

(***************************************************************************)
(* The headers of the outbound request and the guard of the forward        *)
(* (specification Spec).                                                   *)
(***************************************************************************)

\* A request has been sent to the destination of a route.
SentToRoute == fetchCount > 0 /\ destination.config # Null

\* C29: when the destination is that of a route, the headers of the request
\* are the fixed defaults, overridden by the route's headers, overridden by
\* the headers of the matched transformer entry; the headers of the global
\* default destination give none of the values.
C29_NoGlobalHeaders ==
  SentToRoute =>
    outbound.headers =
      Spread(Spread(DefaultRequestHeaders, destination.headers),
             IF MatchingTransformers # {} THEN MatchedEntry.headers ELSE EmptyHeaders)

\* The forward attempt of the request has begun.
ForwardBegun ==
  \/ pc \in {"resolve_destination", "resolve_transformer", "build_payload", "send",
             "awaiting", "finalize"}
  \/ steps # << >>
  \/ destination # NoDestination
  \/ endpointConfig # NoEndpointConfig
  \/ forwardPayload # Null
  \/ fetchCount > 0
  \/ outbound # NoOutbound
  \/ finalResponse.hasForwarded

====
